---- MODULE Spec2Model ----
(***************************************************************************)
(* Risk-Mapper: the block-wise multi-raster aggregation of                 *)
(* SummationAlgorithm (frequency_summation.py), MonthlyFrequencyAlgorithm  *)
(* (monthly_frequency.py) and SeasonalFrequencyAlgorithm                   *)
(* (seasonal_frequency.py).                                                *)
(*                                                                         *)
(* Numbers.  Pixel values, nodata values and accumulators range over the   *)
(* whole of int32/uint32 and their sums, which do not fit the integers of  *)
(* the model checker.  A number v is therefore held as the pair <<hi, lo>> *)
(* with v = hi * 65536 + lo and 0 <= lo < 65536 (hi may be negative).  The *)
(* pair of a number is unique, so equality of pairs is equality of         *)
(* numbers.                                                                *)
(*                                                                         *)
(* Rasters.  Input rasters are single-band integer rasters.  The content   *)
(* of a raster is given for every pixel: pixel (c, r) holds ras.a when     *)
(* c + r is even and ras.b when it is odd.  The output raster is observed  *)
(* at the pixels of Probes (the corners of the 512-blocks).                *)
(***************************************************************************)
EXTENDS Integers, Sequences, FiniteSets, TLC

VARIABLES
    alg,            \* which processAlgorithm runs
    pc,             \* position of the run (plugin: the method called last)
    listing,        \* os.walk(input_folder): the files, in walk order
    dtype_idx,      \* OUT_DATATYPE enum index (summation)
    seasons,        \* the seasons dict, in insertion order (seasonal)
    all_rasters,    \* summation: paths gathered
    rasters_by_month,   \* monthly: month key -> paths
    rasters,        \* seasonal: (year, month, path) sorted; monthly: current group
    season_raster_map,  \* seasonal: (season_year, season_name) -> (y, m, f) list
    todo,           \* the sorted keys still to process, current one first
    final_files,    \* seasonal: gap-filled contributor list of the current unit
    cols, rows,     \* grid of the current output
    y, x,           \* block loop position
    block_sum,      \* accumulator of the last block, at the probes inside it
    out_px,         \* the current output raster at the probes
    writes,         \* WriteArray calls on the current output, in order
    opened,         \* gdal.Open calls for the current output, in order
    progress,       \* feedback.setProgress values, in order
    results,        \* aggregations: the units flushed so far: key, pixels,
                    \* blocks written
    skipped,        \* file names reported as skipped
    canceled,       \* feedback.isCanceled()
    cancelAt,       \* number of blocks written (preprocessing: of files masked)
                    \* when cancellation was signalled
    report,         \* how the run ended
    load_maps,      \* LOAD_RESULT / LOAD_MAPS
    threshold,      \* THRESHOLD (binary conversion)
    date_id,        \* DATE_ID, the "start:end" string (monthly zonal statistics)
    out_ds,         \* the current output dataset as created: size, band count,
                    \* pixel type, geotransform, projection, nodata value
    messages,       \* feedback.pushInfo / pushWarning calls, in order
    layers,         \* QgsProject.instance().addMapLayer calls, in order
    fields,         \* the suffix computed for each raster (zonal statistics,
                    \* sampling); risk: the fields filter_field returned
    user_pixel_area,    \* PIXEL_AREA as parameterAsDouble gives it, 0 when it
                    \* is not given (area and monthly zonal statistics)
    out_of_range,   \* what astype(np.uint32) makes, in this build of numpy,
                    \* of a float that is not in the range of uint32
    events,         \* the gdal calls of the current unit of an aggregation or
                    \* of the binary conversion, in order: what is called, on
                    \* which raster
    params,         \* the parameters of the exposure, sampling, index and
                    \* risk runs, None in every other run
    outputs,        \* what the toolbox calls of those runs have written, in
                    \* order (exposure: the list results of the paths saved)
    merge_rasters,  \* MERGE_RASTERS (preprocessing)
    merge_pattern,  \* MERGE_PATTERN, stripped (preprocessing)
    target_crs,     \* TARGET_CRS, None when it is not valid (preprocessing)
    grouped_files,  \* preprocessing: the groups to merge, in insertion order
    files_to_process,   \* preprocessing: (path, base_name, relative_subfolder)
    masked_files,   \* preprocessing: the entries clipped so far
    warped,         \* preprocessing: the gdal:warpreproject calls so far
    in_call,        \* the call into the toolbox (processing.run) that is under
                    \* way, "" when there is none
    provider,       \* RiskMapperPlugin.provider: the number of the provider
                    \* object held, 0 for None
    registry,       \* QgsApplication.processingRegistry(): the providers in it
    deleted,        \* the providers the registry has deleted
    created         \* the number of RiskMapperProvider objects created so far

vars == <<alg, pc, listing, dtype_idx, seasons, all_rasters, rasters_by_month,
          rasters, season_raster_map, todo, final_files, cols, rows, y, x,
          block_sum, out_px, writes, opened, progress, results, skipped,
          canceled, cancelAt, report, load_maps, threshold, date_id, out_ds,
          messages, layers, fields, user_pixel_area, out_of_range, events,
          params, outputs, merge_rasters,
          merge_pattern, target_crs, grouped_files, files_to_process,
          masked_files, warped, in_call, provider, registry, deleted, created>>

\* The variables of the preprocessing run and of the plugin object.
prepVars == <<merge_rasters, merge_pattern, target_crs, grouped_files,
              files_to_process, masked_files, warped, in_call>>

plugVars == <<provider, registry, deleted, created>>

\* The variables only the aggregation, conversion and zonal runs use.
aggVars == <<dtype_idx, seasons, all_rasters, rasters_by_month, rasters,
             season_raster_map, todo, final_files, cols, rows, y, x, block_sum,
             out_px, writes, opened, progress, results, skipped, load_maps,
             threshold, date_id, out_ds, layers, fields, user_pixel_area,
             out_of_range, events, params, outputs>>

\* Python's None.  Paths and numbers are pairs, so the empty tuple differs
\* from every one of them.
None == <<>>

(***************************************************************************)
(* Bounds of the model.                                                    *)
(***************************************************************************)
MaxFiles == 2

\* The provider objects created in a run of the plugin.
MaxProviders == 3

(***************************************************************************)
(* Wide numbers.                                                           *)
(***************************************************************************)
Base == 2^16

WInt(n) == <<n \div Base, n % Base>>

W(hi, lo) == <<hi, lo>>

WZero == <<0, 0>>

WAdd(a, b) == <<a[1] + b[1] + ((a[2] + b[2]) \div Base), (a[2] + b[2]) % Base>>

WNeg(a) == IF a[2] = 0 THEN <<0 - a[1], 0>> ELSE <<0 - a[1] - 1, Base - a[2]>>

WLess(a, b) == a[1] < b[1] \/ (a[1] = b[1] /\ a[2] < b[2])

WLeq(a, b) == a = b \/ WLess(a, b)

WMin(a, b) == IF WLess(b, a) THEN b ELSE a

WMax(a, b) == IF WLess(a, b) THEN b ELSE a

(***************************************************************************)
(* Numbers with a fraction.  <<hi, lo, f1, f2>> is the number              *)
(* hi * 2^16 + lo + f1 / 2^28 + f2 / 2^56, with 0 <= lo < 2^16,            *)
(* 0 <= f1, f2 < 2^28 and f1, f2 not both 0; a whole number is the pair    *)
(* <<hi, lo>>.  Every float32 and every double of magnitude below 2^32     *)
(* that is a multiple of 2^-56 is such a number.                           *)
(***************************************************************************)
FBase == 2^28

\* The IEEE not-a-number: no pair and no quadruple.
NaN == <<0, 0, 0>>

Frac(v) == IF Len(v) = 4 THEN <<v[3], v[4]>> ELSE <<0, 0>>

Floor(v) == <<v[1], v[2]>>

R(hi, lo, f1, f2) == IF f1 = 0 /\ f2 = 0 THEN <<hi, lo>> ELSE <<hi, lo, f1, f2>>

RAdd(a, b) ==
    LET f2 == Frac(a)[2] + Frac(b)[2]
        f1 == Frac(a)[1] + Frac(b)[1] + (f2 \div FBase)
        whole == WAdd(WAdd(Floor(a), Floor(b)), <<0, f1 \div FBase>>)
    IN  R(whole[1], whole[2], f1 % FBase, f2 % FBase)

\* a < b for two numbers (not NaN).
RLess(a, b) ==
    \/ WLess(Floor(a), Floor(b))
    \/ /\ Floor(a) = Floor(b)
       /\ \/ Frac(a)[1] < Frac(b)[1]
          \/ Frac(a)[1] = Frac(b)[1] /\ Frac(a)[2] < Frac(b)[2]

\* The whole number next to v in the direction of 0.
Trunc(v) ==
    IF Len(v) = 2 THEN v
    ELSE IF v[1] < 0 THEN WAdd(Floor(v), <<0, 1>>) ELSE Floor(v)

\* The float32 nearest to the number m, 0 <= m < 2^32: of its 88 binary
\* digits (32 before the point) the 24 from the first that is 1 are kept and
\* the rest rounded away (to the nearest, a tie to the even one).
Float32Mag(m) ==
    LET bitsOf(n, w) == [i \in 1..w |-> (n \div 2^(w - i)) % 2]
        RECURSIVE bitsVal(_, _, _)
        bitsVal(ds, i, j) == IF j < i THEN 0 ELSE 2 * bitsVal(ds, i, j - 1) + ds[j]
        ofBits(ds) == R(bitsVal(ds, 1, 16), bitsVal(ds, 17, 32),
                        bitsVal(ds, 33, 60), bitsVal(ds, 61, 88))
        bits == bitsOf(m[1], 16) \o bitsOf(m[2], 16)
                    \o bitsOf(Frac(m)[1], 28) \o bitsOf(Frac(m)[2], 28)
    IN  IF \A i \in 1..88 : bits[i] = 0 THEN m
        ELSE LET lead == CHOOSE i \in 1..88 :
                             bits[i] = 1 /\ \A j \in 1..(i - 1) : bits[j] = 0
                 last == lead + 23
             IN  IF last >= 88 THEN m
                 ELSE LET down == ofBits([i \in 1..88 |-> IF i <= last THEN bits[i] ELSE 0])
                          ulp == ofBits([i \in 1..88 |-> IF i = last THEN 1 ELSE 0])
                          sticky == \E i \in (last + 2)..88 : bits[i] = 1
                      IN  IF bits[last + 1] = 1 /\ (sticky \/ bits[last] = 1)
                          THEN RAdd(down, ulp) ELSE down

\* np.float32(v) of a Python float v: in a comparison with a float32 array
\* the Python float takes the type of the array.
Float32Of(v) ==
    LET neg(a) ==
            IF Len(a) = 2 THEN WNeg(a)
            ELSE LET whole == WNeg(WAdd(Floor(a), <<0, 1>>))
                 IN  R(whole[1], whole[2],
                       FBase - a[3] - (IF a[4] = 0 THEN 0 ELSE 1), (FBase - a[4]) % FBase)
    IN  IF v = NaN THEN NaN
        ELSE IF v[1] < 0 THEN neg(Float32Mag(neg(v))) ELSE Float32Mag(v)

(***************************************************************************)
(* numpy conversions.                                                      *)
(***************************************************************************)
\* ndarray.astype(np.uint32) of an integer array: the value modulo 2^32.
AsUInt32(v) == <<v[1] % Base, v[2]>>

\* ndarray.astype(np.uint32) of a float array: the value truncated toward
\* zero when that is in the range of uint32.  For any other float (NaN, a
\* value at or below -1 or at or above 2^32) the C conversion is undefined,
\* and the build of numpy decides what comes out (out_of_range):
\*   "wraps"       the float is converted to a 64-bit integer of which the
\*                 low 32 bits are kept, NaN gives 0 (the scalar
\*                 conversion of x86-64);
\*   "saturates"   the value is limited to the range, NaN gives 0 (AArch64);
\*   "ones"        every such float gives 4294967295 (the AVX-512
\*                 conversion);
\*   "indefinite"  the float is converted as a signed 32-bit integer of
\*                 which the bits are kept, and what that cannot hold
\*                 gives 2147483648 (NaN, a value below -2^31) or 0 (a
\*                 value at or above 2^32) (the SSE2 loop).
FloatAsUInt32(v) ==
    IF v # NaN /\ 0 <= Trunc(v)[1] /\ Trunc(v)[1] < Base THEN Trunc(v)
    ELSE CASE out_of_range = "ones" -> W(65535, 65535)
           [] out_of_range = "indefinite" ->
                 IF v = NaN \/ Trunc(v)[1] < 0 - 32768 THEN W(32768, 0)
                 ELSE IF Trunc(v)[1] >= Base THEN WZero
                 ELSE AsUInt32(Trunc(v))
           [] out_of_range = "saturates" ->
                 IF v = NaN \/ Trunc(v)[1] < 0 THEN WZero ELSE W(65535, 65535)
           [] OTHER -> IF v = NaN THEN WZero ELSE AsUInt32(Trunc(v))

\* uint32 + uint32 in a uint32 array (block_sum += data): modulo 2^32.
AddUInt32(a, b) == AsUInt32(WAdd(a, b))

\* np.clip(a, lo, hi): min(max(a, lo), hi).
Clip(v, lo, hi) == WMin(WMax(v, lo), hi)

\* The float32 nearest to a non-negative integer below 2^40 (24 significant
\* bits, ties to even): the low k bits are rounded away when
\* 2^(23+k) <= m < 2^(24+k).
RoundF32Mag(m) ==
    IF m[1] < 256 THEN m
    ELSE LET k == CHOOSE j \in 1..16 : 128 * 2^j <= m[1] /\ m[1] < 256 * 2^j
             q == 2^k
             r == m[2] % q
             down == <<m[1], m[2] - r>>
             up == WAdd(down, <<0, q>>)
             odd == IF k = 16 THEN m[1] % 2 = 1 ELSE (m[2] \div q) % 2 = 1
         IN  IF 2 * r < q THEN down
             ELSE IF 2 * r > q THEN up
             ELSE IF odd THEN up ELSE down

\* ndarray.astype(np.float32) of an integer, and the rounding of a float32 sum.
AsFloat32(v) == IF v[1] < 0 THEN WNeg(RoundF32Mag(WNeg(v))) ELSE RoundF32Mag(v)

\* float32 + float32 (block_sum += data): the exact sum, rounded.
AddFloat32(a, b) == AsFloat32(WAdd(a, b))

(***************************************************************************)
(* Files, rasters, the grid.                                               *)
(***************************************************************************)
block_size == 512

Min(a, b) == IF a < b THEN a ELSE b

\* ysize = min(block_size, rows - y), xsize = min(block_size, cols - x)
BlockExtent(n, off) == Min(block_size, n - off)

\* The pixels at which rasters are observed.
ProbeCoords == {0, 1, 511, 512, 1023, 1024}

Probes(w, h) == {p \in ProbeCoords \X ProbeCoords : p[1] < w /\ p[2] < h}

\* str.lower() of one character: the capital letters of ASCII become small,
\* every other character of the names here is left as it is.
LowerChar(ch) ==
    CASE ch = "A" -> "a" [] ch = "B" -> "b" [] ch = "C" -> "c"
      [] ch = "D" -> "d" [] ch = "E" -> "e" [] ch = "F" -> "f"
      [] ch = "G" -> "g" [] ch = "H" -> "h" [] ch = "I" -> "i"
      [] ch = "J" -> "j" [] ch = "K" -> "k" [] ch = "L" -> "l"
      [] ch = "M" -> "m" [] ch = "N" -> "n" [] ch = "O" -> "o"
      [] ch = "P" -> "p" [] ch = "Q" -> "q" [] ch = "R" -> "r"
      [] ch = "S" -> "s" [] ch = "T" -> "t" [] ch = "U" -> "u"
      [] ch = "V" -> "v" [] ch = "W" -> "w" [] ch = "X" -> "x"
      [] ch = "Y" -> "y" [] ch = "Z" -> "z"
      [] OTHER -> ch

Lower(s) == [i \in 1..Len(s) |-> LowerChar(s[i])]

\* fname.lower().endswith(".tif"): lower() turns each character of these
\* names into one character, so the end of the lowered name is the lowered
\* end of the name.
IsTif(fname) ==
    /\ Len(fname) >= 4
    /\ Lower(SubSeq(fname, Len(fname) - 3, Len(fname))) = <<".", "t", "i", "f">>

\* os.path.join(root, fname)
Path(f) == <<f.root, f.name>>

\* gdal.Open(path): the file of the listing at that path.
Open(path) == CHOOSE f \in {listing[i] : i \in 1..Len(listing)} : Path(f) = path

\* One pixel of band.ReadAsArray(x, y, xsize, ysize), at grid position p.
ReadPixel(f, p) == IF (p[1] + p[2]) % 2 = 0 THEN f.a ELSE f.b

\* band.ReadAsArray(x, y, xsize, ysize) of a window that is not inside the
\* raster returns None, and .astype on it raises.
ReadFails(f, bx, by, xsize, ysize) == bx + xsize > f.cols \/ by + ysize > f.rows

\* The position in paths of the first raster whose window read fails, 0 when
\* every read succeeds (a None entry is not read).
FirstFailing(paths, bx, by, xsize, ysize) ==
    LET fails(i) == paths[i] # None /\ ReadFails(Open(paths[i]), bx, by, xsize, ysize)
    IN  IF \E i \in 1..Len(paths) : fails(i)
        THEN CHOOSE i \in 1..Len(paths) : fails(i) /\ \A j \in 1..(i - 1) : ~fails(j)
        ELSE 0

\* feedback.pushInfo, feedback.pushWarning: what is said, about what.
pushInfo(kind, about) == [level |-> "info", kind |-> kind, about |-> about]

pushWarning(kind, about) == [level |-> "warning", kind |-> kind, about |-> about]

\* The probes inside the block at (bx, by) of size xsize x ysize.
Window(bx, by, xsize, ysize) ==
    {p \in Probes(cols, rows) :
        /\ bx <= p[1] /\ p[1] < bx + xsize
        /\ by <= p[2] /\ p[2] < by + ysize}

\* All sequences without repetition of at most n members of S.
Listings(S, n) ==
    UNION {{s \in [1..k -> S] : \A i, j \in 1..k : s[i] = s[j] => i = j} : k \in 0..n}

(***************************************************************************)
(* SummationAlgorithm.processAlgorithm (frequency_summation.py).           *)
(***************************************************************************)
\* The files a summation folder is drawn from, on the grid g but for
\* small.tif, a 1 x 1 raster with a geotransform and projection of its own:
\* name, size, geotransform, projection, pixel type of the band, declared
\* nodata value, and the pixel values a (c + r even), b (c + r odd).
\* half.tif is a Float32 raster with the values -0.5 and -2.5.
SumFiles(g) ==
    {
       [root |-> "in", name |-> <<"o", "n", "e", "s", ".", "t", "i", "f">>, dtype |-> "Byte",
        cols |-> g[1], rows |-> g[2], geo |-> "gt0", proj |-> "EPSG:4326", nodata |-> None, a |-> W(0, 1), b |-> W(0, 1)],
       [root |-> "in/sub", name |-> <<"t", "w", "o", "s", ".", "t", "i", "f">>, dtype |-> "Byte",
        cols |-> g[1], rows |-> g[2], geo |-> "gt0", proj |-> "EPSG:4326", nodata |-> None, a |-> W(0, 2), b |-> W(0, 2)],
       [root |-> "in", name |-> <<"m", "i", "x", ".", "T", "I", "F">>, dtype |-> "UInt16",
        cols |-> g[1], rows |-> g[2], geo |-> "gt0", proj |-> "EPSG:4326", nodata |-> W(0, 9), a |-> W(0, 300), b |-> W(0, 9)],
       [root |-> "in", name |-> <<"n", "e", "g", ".", "t", "i", "f">>, dtype |-> "Int32",
        cols |-> g[1], rows |-> g[2], geo |-> "gt0", proj |-> "EPSG:4326", nodata |-> W(0 - 1, 65535), a |-> W(0 - 1, 65535), b |-> W(0, 40000)],
       [root |-> "in", name |-> <<"b", "i", "g", ".", "t", "i", "f">>, dtype |-> "UInt32",
        cols |-> g[1], rows |-> g[2], geo |-> "gt0", proj |-> "EPSG:4326", nodata |-> None, a |-> W(65535, 65535), b |-> W(32767, 65535)],
       [root |-> "in", name |-> <<"h", "a", "l", "f", ".", "t", "i", "f">>, dtype |-> "Float32",
        cols |-> g[1], rows |-> g[2], geo |-> "gt0", proj |-> "EPSG:4326", nodata |-> None,
        a |-> R(0 - 1, 65535, FBase \div 2, 0), b |-> R(0 - 1, 65533, FBase \div 2, 0)],
       [root |-> "in", name |-> <<"s", "m", "a", "l", "l", ".", "t", "i", "f">>, dtype |-> "Byte",
        cols |-> 1, rows |-> 1, geo |-> "gt1", proj |-> "EPSG:32644", nodata |-> None, a |-> W(0, 5), b |-> W(0, 5)],
       [root |-> "in", name |-> <<"n", "o", "t", "e", "s", ".", "t", "x", "t">>, dtype |-> "Byte",
        cols |-> g[1], rows |-> g[2], geo |-> "gt0", proj |-> "EPSG:4326", nodata |-> None, a |-> W(0, 0), b |-> W(0, 0)]
    }

\* Whether the band of f is read as an array of float32.
IsFloat32(f) == f.dtype = "Float32"

gdal_dtype_map(idx) ==
    CASE idx = 0 -> "Byte" [] idx = 1 -> "UInt16" [] idx = 2 -> "UInt32"
      [] idx = 3 -> "Int16" [] idx = 4 -> "Int32" [] idx = 5 -> "Float32"
      [] idx = 6 -> "Float64" [] OTHER -> "UInt16"

\* A window compared with the nodata value as read, before the conversion.
SumDataNodataFirst(f, p) ==
    IF f.nodata # None /\ ReadPixel(f, p) = f.nodata THEN WZero
    ELSE IF IsFloat32(f) THEN FloatAsUInt32(ReadPixel(f, p))
    ELSE AsUInt32(ReadPixel(f, p))

\* data = band.ReadAsArray(...).astype(np.uint32); data[data == nodata] = 0
\* (the uint32 array and the nodata value, a Python float, are compared as
\* float64, which holds both exactly; NaN equals nothing).
SumData(f, p) ==
    LET data == IF IsFloat32(f) THEN FloatAsUInt32(ReadPixel(f, p))
                ELSE AsUInt32(ReadPixel(f, p))
    IN  IF f.nodata # None /\ data = f.nodata THEN WZero ELSE data

\* An accumulator that is assigned each window instead of added to.
SumBlockSumAssign(paths, n, p) ==
    IF n = 0 THEN WZero ELSE SumData(Open(paths[n]), p)

\* block_sum after the loop over paths[1..n], at probe p.
RECURSIVE SumBlockSum(_, _, _)
SumBlockSum(paths, n, p) ==
    IF n = 0 THEN WZero
    ELSE AddUInt32(SumBlockSum(paths, n - 1, p), SumData(Open(paths[n]), p))

\* astype(np.uint8) without the clip: the value modulo 256.
ByteNoClip(v) == <<0, v[2] % 256>>

ClipByte(v) == Clip(v, WInt(0), WInt(255))

ClipUInt16(v) == Clip(v, WInt(0), WInt(65535))

ClipUInt32(v) == Clip(v, WInt(0), W(65535, 65535))

ClipInt16(v) == Clip(v, WInt(0 - 32768), WInt(32767))

ClipInt32(v) == Clip(v, W(0 - 32768, 0), WInt(2147483647))

\* "Cast to output type safely": one pixel of out_block.
CastOut(dt, v) ==
    CASE dt = "Byte" -> ClipByte(v)
      [] dt = "UInt16" -> ClipUInt16(v)
      [] dt = "UInt32" -> ClipUInt32(v)
      [] dt = "Int16" -> ClipInt16(v)
      [] dt = "Int32" -> ClipInt32(v)
      [] dt = "Float32" -> AsFloat32(v)
      [] OTHER -> v

\* The .tif paths of the walk, in walk order.
RECURSIVE GatherTifs(_)
GatherTifs(fs) ==
    IF fs = <<>> THEN <<>>
    ELSE (IF IsTif(Head(fs).name) THEN <<Path(Head(fs))>> ELSE <<>>)
         \o GatherTifs(Tail(fs))

\* One gdal call: what is called, on the raster at which path.
Ev(op, on) == [op |-> op, on |-> on]

\* The output raster of the current unit.
Out == <<"out", <<>>>>

\* A contributor whose handle is not released after the read.
ReadEventsHeld(path) == <<Ev("open", path), Ev("read", path)>>

\* The calls for one contributor of a block: ds = gdal.Open(path),
\* band.ReadAsArray(...), ds = None.
ReadEvents(path) == <<Ev("open", path), Ev("read", path), Ev("close", path)>>

\* The calls of the loop over the contributors of one block (a None entry
\* opens nothing).
RECURSIVE BlockEvents(_)
BlockEvents(paths) ==
    IF paths = <<>> THEN <<>>
    ELSE (IF Head(paths) = None THEN <<>> ELSE ReadEvents(Head(paths)))
         \o BlockEvents(Tail(paths))

\* band.WriteArray(block, xoff = bx, yoff = by) on the current output.
WriteArray(block, bx, by, xsize, ysize) ==
    /\ out_px' = [p \in DOMAIN out_px |->
                    IF p \in DOMAIN block THEN block[p] ELSE out_px[p]]
    /\ writes' = Append(writes, [x |-> bx, y |-> by, xsize |-> xsize, ysize |-> ysize])

\* The calls of one block: its contributors, then WriteArray on the output.
BlockDone(paths) ==
    events' = events \o BlockEvents(paths) \o <<Ev("write", Out)>>

\* A window read raised: the exception leaves processAlgorithm, after the
\* gdal.Open calls read.
ReadError(read) ==
    /\ opened' = opened \o read
    /\ events' = events \o BlockEvents(SubSeq(read, 1, Len(read) - 1))
                    \o <<Ev("open", read[Len(read)]), Ev("read", read[Len(read)])>>
    /\ block_sum' = <<>>
    /\ pc' = "failed"
    /\ report' = "error"
    /\ UNCHANGED <<out_px, writes, x, y, progress>>

\* A loop over the blocks of the first row of blocks only.
LoopStepOneRow(reports) ==
    LET ysize == BlockExtent(rows, y)
    IN  IF x + block_size < cols
        THEN /\ x' = x + block_size
             /\ UNCHANGED <<y, progress, pc>>
        ELSE /\ x' = 0
             /\ progress' = IF reports
                            THEN Append(progress, (100 * (y + ysize)) \div rows)
                            ELSE progress
             /\ y' = y /\ pc' = "flush"

\* The step of the nested range(0, rows, block_size) / range(0, cols, block_size)
\* loops after the block at (x, y); a finished row of blocks reports progress
\* when the algorithm does, and the end of the loops leads to the flush.
LoopStep(reports) ==
    LET ysize == BlockExtent(rows, y)
    IN  IF x + block_size < cols
        THEN /\ x' = x + block_size
             /\ UNCHANGED <<y, progress, pc>>
        ELSE /\ x' = 0
             /\ progress' = IF reports
                            THEN Append(progress, (100 * (y + ysize)) \div rows)
                            ELSE progress
             /\ IF y + block_size < rows
                THEN y' = y + block_size /\ pc' = pc
                ELSE y' = y /\ pc' = "flush"

\* The grid is read from the raster at path ref (gdal.Open, GetGeoTransform,
\* GetProjection, RasterXSize, RasterYSize) and driver.Create makes a
\* zero-filled one-band output of that size and of pixel type dt, which is
\* given the geotransform, the projection and the nodata value 0.
CreateOutput(ref, dt) ==
    /\ cols' = Open(ref).cols
    /\ rows' = Open(ref).rows
    /\ out_ds' = [cols |-> Open(ref).cols, rows |-> Open(ref).rows, bands |-> 1,
                  dtype |-> dt, geo |-> Open(ref).geo, proj |-> Open(ref).proj,
                  nodata |-> 0]
    /\ out_px' = [p \in Probes(Open(ref).cols, Open(ref).rows) |-> WZero]
    /\ writes' = <<>>
    /\ opened' = <<ref>>
    /\ events' = <<Ev("open", ref), Ev("close", ref), Ev("create", Out)>>
    /\ block_sum' = <<>>
    /\ y' = 0
    /\ x' = 0

\* Lines 131-161: gather the .tif files, fail when there is none, read the
\* grid of the first and create the output.
SumStart ==
    /\ alg = "summation" /\ pc = "start"
    /\ all_rasters' = GatherTifs(listing)
    /\ IF all_rasters' = <<>>
       THEN /\ pc' = "failed"
            /\ report' = "error"
            /\ UNCHANGED <<cols, rows, out_px, writes, opened, block_sum, y, x,
                           out_ds, messages, events>>
       ELSE /\ pc' = "blocks"
            /\ report' = report
            /\ messages' = Append(messages, pushInfo("Found", Len(all_rasters')))
            /\ CreateOutput(all_rasters'[1], gdal_dtype_map(dtype_idx))
    /\ UNCHANGED <<prepVars, plugVars, params, outputs, user_pixel_area, out_of_range>>
    /\ UNCHANGED <<load_maps, threshold, date_id, fields, layers>>
    /\ UNCHANGED <<alg, listing, dtype_idx, seasons, rasters_by_month, rasters,
                   season_raster_map, todo, final_files, progress, results,
                   skipped, canceled, cancelAt>>

\* Lines 165-201: one block of the nested loops.
SumBlock ==
    /\ alg = "summation" /\ pc = "blocks"
    /\ LET ysize == BlockExtent(rows, y)
           xsize == BlockExtent(cols, x)
           win == Window(x, y, xsize, ysize)
           sum == [p \in win |-> SumBlockSum(all_rasters, Len(all_rasters), p)]
           out_block == [p \in win |-> CastOut(gdal_dtype_map(dtype_idx), sum[p])]
           bad == FirstFailing(all_rasters, x, y, xsize, ysize)
       IN  IF bad # 0
           THEN ReadError(SubSeq(all_rasters, 1, bad))
           ELSE /\ block_sum' = sum
                /\ opened' = opened \o all_rasters
                /\ BlockDone(all_rasters)
                /\ WriteArray(out_block, x, y, xsize, ysize)
                /\ LoopStep(TRUE)
                /\ report' = report
    /\ UNCHANGED <<prepVars, plugVars, params, outputs, user_pixel_area, out_of_range>>
    /\ UNCHANGED <<load_maps, threshold, date_id, fields, out_ds, messages, layers>>
    /\ UNCHANGED <<alg, listing, dtype_idx, seasons, all_rasters, rasters_by_month,
                   rasters, season_raster_map, todo, final_files, cols, rows,
                   results, skipped, canceled, cancelAt>>

\* What is said when QgsRasterLayer(output).isValid() is false: a warning
\* in the summation and the seasonal run, an information in the monthly one.
NotLoaded(key) ==
    CASE alg = "summation" -> pushWarning("NotLoaded", key)
      [] alg = "monthly" -> pushInfo("Failed to load", key)
      [] OTHER -> pushWarning("Failed to load", key)

\* A finalization that registers the layer whatever the load option.
FinalizeAlwaysLoads(key, last) ==
    /\ events' = events \o <<Ev("flush", Out), Ev("close", Out), Ev("addMapLayer", Out)>>
    /\ layers' = Append(layers, key)
    /\ messages' = messages \o <<pushInfo("Saved", key), pushInfo("Loaded", key)>> \o last

\* The output at key was flushed and closed: "Saved" is said and, when
\* load_maps is set, a QgsRasterLayer is made of the output: a valid one is
\* added to the project ("Loaded"), of one that is not valid only the
\* failure is said; then what the algorithm says before it returns, if it
\* returns now.
Finalize(key, last) ==
    \E isValid \in BOOLEAN :
        /\ ~load_maps => isValid
        /\ events' = events \o <<Ev("flush", Out), Ev("close", Out)>>
                        \o (IF load_maps /\ isValid THEN <<Ev("addMapLayer", Out)>>
                                                    ELSE <<>>)
        /\ layers' = IF load_maps /\ isValid THEN Append(layers, key) ELSE layers
        /\ messages' = messages \o <<pushInfo("Saved", key)>>
                         \o (IF ~load_maps THEN <<>>
                             ELSE IF isValid THEN <<pushInfo("Loaded", key)>>
                             ELSE <<NotLoaded(key)>>)
                         \o last

\* Lines 203-215: flush, close and return.
SumFinish ==
    /\ alg = "summation" /\ pc = "flush"
    /\ Finalize("output", <<>>)
    /\ results' = Append(results, [key |-> "output", cols |-> cols, rows |-> rows,
                                   files |-> all_rasters, px |-> out_px,
                                   writes |-> writes])
    /\ report' = "completed"
    /\ pc' = "done"
    /\ UNCHANGED <<prepVars, plugVars, params, outputs, user_pixel_area, out_of_range>>
    /\ UNCHANGED <<load_maps, threshold, date_id, fields, out_ds>>
    /\ UNCHANGED <<alg, listing, dtype_idx, seasons, all_rasters, rasters_by_month,
                   rasters, season_raster_map, todo, final_files, cols, rows, y, x,
                   block_sum, out_px, writes, opened, progress, skipped, canceled,
                   cancelAt>>

\* The caller signals cancellation (feedback.isCanceled() becomes true) at
\* any moment of a run of an algorithm that has not ended.
Cancel ==
    /\ alg # "plugin" /\ pc \notin {"done", "failed"} /\ ~canceled
    /\ canceled' = TRUE
    /\ cancelAt' = IF alg = "preprocess" THEN Len(masked_files) ELSE Len(writes)
    /\ UNCHANGED prepVars
    /\ UNCHANGED events
    /\ UNCHANGED <<plugVars, params, outputs, user_pixel_area, out_of_range>>
    /\ UNCHANGED <<load_maps, threshold, date_id, fields, out_ds, messages, layers>>
    /\ UNCHANGED <<alg, pc, listing, dtype_idx, seasons, all_rasters,
                   rasters_by_month, rasters, season_raster_map, todo, final_files,
                   cols, rows, y, x, block_sum, out_px, writes, opened, progress,
                   results, skipped, report>>

InitCommon ==
    /\ pc = "start"
    /\ all_rasters = <<>>
    /\ rasters_by_month = <<>>
    /\ rasters = <<>>
    /\ season_raster_map = <<>>
    /\ todo = <<>>
    /\ final_files = <<>>
    /\ cols = 0 /\ rows = 0 /\ y = 0 /\ x = 0
    /\ block_sum = <<>>
    /\ out_px = <<>>
    /\ writes = <<>>
    /\ opened = <<>>
    /\ progress = <<>>
    /\ results = <<>>
    /\ skipped = <<>>
    /\ canceled = FALSE
    /\ cancelAt = 0 - 1
    /\ report = "running"
    /\ out_ds = None
    /\ messages = <<>>
    /\ layers = <<>>
    /\ fields = <<>>
    /\ events = <<>>
    /\ outputs = <<>>
    /\ grouped_files = <<>>
    /\ files_to_process = <<>>
    /\ masked_files = <<>>
    /\ warped = <<>>
    /\ in_call = ""
    /\ provider = 0
    /\ registry = {}
    /\ deleted = {}
    /\ created = 0

\* A run that is not a preprocessing run has none of its parameters.
NoPrepInputs ==
    /\ merge_rasters = FALSE
    /\ merge_pattern = ""
    /\ target_crs = [valid |-> FALSE, wkt |-> ""]

\* Grid size, OUT_DATATYPE and LOAD_RESULT of the runs: on the one-block
\* grid every pixel type with the result loaded (the default) and the
\* default type Float32 without; on the grid of three blocks the type Byte
\* and on the grid of six blocks the type Float32, with the result loaded.
SumOptions ==
    {<<<<2, 2>>, d, TRUE>> : d \in 0..6} \cup {<<<<2, 2>>, 5, FALSE>>}
        \cup {<<<<2, 1025>>, 0, TRUE>>, <<<<1025, 513>>, 5, TRUE>>}

InitSum ==
    /\ alg = "summation"
    /\ \E o \in SumOptions :
          /\ listing \in Listings(SumFiles(o[1]), MaxFiles)
          /\ dtype_idx = o[2] /\ load_maps = o[3]
    /\ threshold = None
    /\ date_id = None
    /\ seasons = <<>>
    /\ user_pixel_area = 0
    /\ LET undefined(f) ==
                /\ IsFloat32(f)
                /\ \E v \in {f.a, f.b} : v = NaN \/ Trunc(v)[1] < 0 \/ Trunc(v)[1] >= Base
       IN  out_of_range \in IF \E i \in 1..Len(listing) : undefined(listing[i])
                            THEN {"wraps", "saturates", "ones", "indefinite"}
                            ELSE {"wraps"}
    /\ NoPrepInputs
    /\ params = None
    /\ InitCommon

(***************************************************************************)
(* Calendar file names (monthly_frequency.py, seasonal_frequency.py).      *)
(***************************************************************************)
\* The files a monthly or seasonal folder is drawn from, on the grid g but
\* for s_2021-02-03.tif, a 1 x 1 raster with a geotransform and projection of
\* its own.  The last digit of f_2023-01-10.TIF is the Arabic-Indic zero
\* U+0660, which \d matches as it does every decimal digit.
CalFiles(g) ==
    {
       [root |-> "in", name |-> <<"f", "l", "o", "o", "d", "_", "2", "0", "2", "1", "-", "0", "1", "-", "1", "5", ".", "t", "i", "f">>,
        cols |-> g[1], rows |-> g[2], geo |-> "gt0", proj |-> "EPSG:4326", nodata |-> None, a |-> W(0, 1), b |-> W(0, 1)],
       [root |-> "in", name |-> <<"f", "l", "o", "o", "d", "_", "2", "0", "2", "1", "-", "0", "1", "-", "2", "8", ".", "t", "i", "f">>,
        cols |-> g[1], rows |-> g[2], geo |-> "gt0", proj |-> "EPSG:4326", nodata |-> W(0, 9), a |-> W(0, 9), b |-> W(0, 1)],
       [root |-> "in/sub", name |-> <<"f", "l", "o", "o", "d", "_", "2", "0", "2", "1", "-", "0", "2", "-", "0", "1", ".", "t", "i", "f">>,
        cols |-> g[1], rows |-> g[2], geo |-> "gt0", proj |-> "EPSG:4326", nodata |-> None, a |-> W(0, 2), b |-> W(0, 2)],
       [root |-> "in", name |-> <<"x", "1", "2", "0", "2", "3", "-", "1", "2", "-", "0", "5", "_", "2", "0", "2", "4", "-", "0", "3", "-", "0", "1", ".", "t", "i", "f">>,
        cols |-> g[1], rows |-> g[2], geo |-> "gt0", proj |-> "EPSG:4326", nodata |-> None, a |-> W(0, 4), b |-> W(0, 0)],
       [root |-> "in/sub", name |-> <<"f", "_", "2", "0", "2", "3", "-", "0", "1", "-", "1", "U+0660", ".", "T", "I", "F">>,
        cols |-> g[1], rows |-> g[2], geo |-> "gt0", proj |-> "EPSG:4326", nodata |-> W(0 - 1, 65535), a |-> W(0 - 1, 65535), b |-> W(0, 3)],
       [root |-> "in", name |-> <<"s", "_", "2", "0", "2", "1", "-", "0", "2", "-", "0", "3", ".", "t", "i", "f">>,
        cols |-> 1, rows |-> 1, geo |-> "gt1", proj |-> "EPSG:32644", nodata |-> None, a |-> W(0, 5), b |-> W(0, 5)],
       [root |-> "in", name |-> <<"f", "l", "o", "o", "d", ".", "t", "i", "f">>,
        cols |-> g[1], rows |-> g[2], geo |-> "gt0", proj |-> "EPSG:4326", nodata |-> None, a |-> W(0, 7), b |-> W(0, 7)],
       [root |-> "in", name |-> <<"f", "_", "2", "0", "2", "1", "-", "0", "2", "-", "0", "9", ".", "t", "x", "t">>,
        cols |-> g[1], rows |-> g[2], geo |-> "gt0", proj |-> "EPSG:4326", nodata |-> None, a |-> W(0, 0), b |-> W(0, 0)]
    }

\* Grid sizes of the monthly and seasonal runs.
CalGridSizes == {<<2, 2>>, <<513, 2>>}

\* The decimal digits beyond ASCII (category Nd of Unicode 14.0), each as
\* the name of its code point, in code point order: runs of ten, each from
\* its zero to its nine.  The pattern \d matches them and int() reads them.
NonAsciiDigits ==
    <<"U+0660", "U+0661", "U+0662", "U+0663", "U+0664", "U+0665", "U+0666",
      "U+0667", "U+0668", "U+0669", "U+06F0", "U+06F1", "U+06F2", "U+06F3",
      "U+06F4", "U+06F5", "U+06F6", "U+06F7", "U+06F8", "U+06F9", "U+07C0",
      "U+07C1", "U+07C2", "U+07C3", "U+07C4", "U+07C5", "U+07C6", "U+07C7",
      "U+07C8", "U+07C9", "U+0966", "U+0967", "U+0968", "U+0969", "U+096A",
      "U+096B", "U+096C", "U+096D", "U+096E", "U+096F", "U+09E6", "U+09E7",
      "U+09E8", "U+09E9", "U+09EA", "U+09EB", "U+09EC", "U+09ED", "U+09EE",
      "U+09EF", "U+0A66", "U+0A67", "U+0A68", "U+0A69", "U+0A6A", "U+0A6B",
      "U+0A6C", "U+0A6D", "U+0A6E", "U+0A6F", "U+0AE6", "U+0AE7", "U+0AE8",
      "U+0AE9", "U+0AEA", "U+0AEB", "U+0AEC", "U+0AED", "U+0AEE", "U+0AEF",
      "U+0B66", "U+0B67", "U+0B68", "U+0B69", "U+0B6A", "U+0B6B", "U+0B6C",
      "U+0B6D", "U+0B6E", "U+0B6F", "U+0BE6", "U+0BE7", "U+0BE8", "U+0BE9",
      "U+0BEA", "U+0BEB", "U+0BEC", "U+0BED", "U+0BEE", "U+0BEF", "U+0C66",
      "U+0C67", "U+0C68", "U+0C69", "U+0C6A", "U+0C6B", "U+0C6C", "U+0C6D",
      "U+0C6E", "U+0C6F", "U+0CE6", "U+0CE7", "U+0CE8", "U+0CE9", "U+0CEA",
      "U+0CEB", "U+0CEC", "U+0CED", "U+0CEE", "U+0CEF", "U+0D66", "U+0D67",
      "U+0D68", "U+0D69", "U+0D6A", "U+0D6B", "U+0D6C", "U+0D6D", "U+0D6E",
      "U+0D6F", "U+0DE6", "U+0DE7", "U+0DE8", "U+0DE9", "U+0DEA", "U+0DEB",
      "U+0DEC", "U+0DED", "U+0DEE", "U+0DEF", "U+0E50", "U+0E51", "U+0E52",
      "U+0E53", "U+0E54", "U+0E55", "U+0E56", "U+0E57", "U+0E58", "U+0E59",
      "U+0ED0", "U+0ED1", "U+0ED2", "U+0ED3", "U+0ED4", "U+0ED5", "U+0ED6",
      "U+0ED7", "U+0ED8", "U+0ED9", "U+0F20", "U+0F21", "U+0F22", "U+0F23",
      "U+0F24", "U+0F25", "U+0F26", "U+0F27", "U+0F28", "U+0F29", "U+1040",
      "U+1041", "U+1042", "U+1043", "U+1044", "U+1045", "U+1046", "U+1047",
      "U+1048", "U+1049", "U+1090", "U+1091", "U+1092", "U+1093", "U+1094",
      "U+1095", "U+1096", "U+1097", "U+1098", "U+1099", "U+17E0", "U+17E1",
      "U+17E2", "U+17E3", "U+17E4", "U+17E5", "U+17E6", "U+17E7", "U+17E8",
      "U+17E9", "U+1810", "U+1811", "U+1812", "U+1813", "U+1814", "U+1815",
      "U+1816", "U+1817", "U+1818", "U+1819", "U+1946", "U+1947", "U+1948",
      "U+1949", "U+194A", "U+194B", "U+194C", "U+194D", "U+194E", "U+194F",
      "U+19D0", "U+19D1", "U+19D2", "U+19D3", "U+19D4", "U+19D5", "U+19D6",
      "U+19D7", "U+19D8", "U+19D9", "U+1A80", "U+1A81", "U+1A82", "U+1A83",
      "U+1A84", "U+1A85", "U+1A86", "U+1A87", "U+1A88", "U+1A89", "U+1A90",
      "U+1A91", "U+1A92", "U+1A93", "U+1A94", "U+1A95", "U+1A96", "U+1A97",
      "U+1A98", "U+1A99", "U+1B50", "U+1B51", "U+1B52", "U+1B53", "U+1B54",
      "U+1B55", "U+1B56", "U+1B57", "U+1B58", "U+1B59", "U+1BB0", "U+1BB1",
      "U+1BB2", "U+1BB3", "U+1BB4", "U+1BB5", "U+1BB6", "U+1BB7", "U+1BB8",
      "U+1BB9", "U+1C40", "U+1C41", "U+1C42", "U+1C43", "U+1C44", "U+1C45",
      "U+1C46", "U+1C47", "U+1C48", "U+1C49", "U+1C50", "U+1C51", "U+1C52",
      "U+1C53", "U+1C54", "U+1C55", "U+1C56", "U+1C57", "U+1C58", "U+1C59",
      "U+A620", "U+A621", "U+A622", "U+A623", "U+A624", "U+A625", "U+A626",
      "U+A627", "U+A628", "U+A629", "U+A8D0", "U+A8D1", "U+A8D2", "U+A8D3",
      "U+A8D4", "U+A8D5", "U+A8D6", "U+A8D7", "U+A8D8", "U+A8D9", "U+A900",
      "U+A901", "U+A902", "U+A903", "U+A904", "U+A905", "U+A906", "U+A907",
      "U+A908", "U+A909", "U+A9D0", "U+A9D1", "U+A9D2", "U+A9D3", "U+A9D4",
      "U+A9D5", "U+A9D6", "U+A9D7", "U+A9D8", "U+A9D9", "U+A9F0", "U+A9F1",
      "U+A9F2", "U+A9F3", "U+A9F4", "U+A9F5", "U+A9F6", "U+A9F7", "U+A9F8",
      "U+A9F9", "U+AA50", "U+AA51", "U+AA52", "U+AA53", "U+AA54", "U+AA55",
      "U+AA56", "U+AA57", "U+AA58", "U+AA59", "U+ABF0", "U+ABF1", "U+ABF2",
      "U+ABF3", "U+ABF4", "U+ABF5", "U+ABF6", "U+ABF7", "U+ABF8", "U+ABF9",
      "U+FF10", "U+FF11", "U+FF12", "U+FF13", "U+FF14", "U+FF15", "U+FF16",
      "U+FF17", "U+FF18", "U+FF19", "U+104A0", "U+104A1", "U+104A2",
      "U+104A3", "U+104A4", "U+104A5", "U+104A6", "U+104A7", "U+104A8",
      "U+104A9", "U+10D30", "U+10D31", "U+10D32", "U+10D33", "U+10D34",
      "U+10D35", "U+10D36", "U+10D37", "U+10D38", "U+10D39", "U+11066",
      "U+11067", "U+11068", "U+11069", "U+1106A", "U+1106B", "U+1106C",
      "U+1106D", "U+1106E", "U+1106F", "U+110F0", "U+110F1", "U+110F2",
      "U+110F3", "U+110F4", "U+110F5", "U+110F6", "U+110F7", "U+110F8",
      "U+110F9", "U+11136", "U+11137", "U+11138", "U+11139", "U+1113A",
      "U+1113B", "U+1113C", "U+1113D", "U+1113E", "U+1113F", "U+111D0",
      "U+111D1", "U+111D2", "U+111D3", "U+111D4", "U+111D5", "U+111D6",
      "U+111D7", "U+111D8", "U+111D9", "U+112F0", "U+112F1", "U+112F2",
      "U+112F3", "U+112F4", "U+112F5", "U+112F6", "U+112F7", "U+112F8",
      "U+112F9", "U+11450", "U+11451", "U+11452", "U+11453", "U+11454",
      "U+11455", "U+11456", "U+11457", "U+11458", "U+11459", "U+114D0",
      "U+114D1", "U+114D2", "U+114D3", "U+114D4", "U+114D5", "U+114D6",
      "U+114D7", "U+114D8", "U+114D9", "U+11650", "U+11651", "U+11652",
      "U+11653", "U+11654", "U+11655", "U+11656", "U+11657", "U+11658",
      "U+11659", "U+116C0", "U+116C1", "U+116C2", "U+116C3", "U+116C4",
      "U+116C5", "U+116C6", "U+116C7", "U+116C8", "U+116C9", "U+11730",
      "U+11731", "U+11732", "U+11733", "U+11734", "U+11735", "U+11736",
      "U+11737", "U+11738", "U+11739", "U+118E0", "U+118E1", "U+118E2",
      "U+118E3", "U+118E4", "U+118E5", "U+118E6", "U+118E7", "U+118E8",
      "U+118E9", "U+11950", "U+11951", "U+11952", "U+11953", "U+11954",
      "U+11955", "U+11956", "U+11957", "U+11958", "U+11959", "U+11C50",
      "U+11C51", "U+11C52", "U+11C53", "U+11C54", "U+11C55", "U+11C56",
      "U+11C57", "U+11C58", "U+11C59", "U+11D50", "U+11D51", "U+11D52",
      "U+11D53", "U+11D54", "U+11D55", "U+11D56", "U+11D57", "U+11D58",
      "U+11D59", "U+11DA0", "U+11DA1", "U+11DA2", "U+11DA3", "U+11DA4",
      "U+11DA5", "U+11DA6", "U+11DA7", "U+11DA8", "U+11DA9", "U+16A60",
      "U+16A61", "U+16A62", "U+16A63", "U+16A64", "U+16A65", "U+16A66",
      "U+16A67", "U+16A68", "U+16A69", "U+16AC0", "U+16AC1", "U+16AC2",
      "U+16AC3", "U+16AC4", "U+16AC5", "U+16AC6", "U+16AC7", "U+16AC8",
      "U+16AC9", "U+16B50", "U+16B51", "U+16B52", "U+16B53", "U+16B54",
      "U+16B55", "U+16B56", "U+16B57", "U+16B58", "U+16B59", "U+1D7CE",
      "U+1D7CF", "U+1D7D0", "U+1D7D1", "U+1D7D2", "U+1D7D3", "U+1D7D4",
      "U+1D7D5", "U+1D7D6", "U+1D7D7", "U+1D7D8", "U+1D7D9", "U+1D7DA",
      "U+1D7DB", "U+1D7DC", "U+1D7DD", "U+1D7DE", "U+1D7DF", "U+1D7E0",
      "U+1D7E1", "U+1D7E2", "U+1D7E3", "U+1D7E4", "U+1D7E5", "U+1D7E6",
      "U+1D7E7", "U+1D7E8", "U+1D7E9", "U+1D7EA", "U+1D7EB", "U+1D7EC",
      "U+1D7ED", "U+1D7EE", "U+1D7EF", "U+1D7F0", "U+1D7F1", "U+1D7F2",
      "U+1D7F3", "U+1D7F4", "U+1D7F5", "U+1D7F6", "U+1D7F7", "U+1D7F8",
      "U+1D7F9", "U+1D7FA", "U+1D7FB", "U+1D7FC", "U+1D7FD", "U+1D7FE",
      "U+1D7FF", "U+1E140", "U+1E141", "U+1E142", "U+1E143", "U+1E144",
      "U+1E145", "U+1E146", "U+1E147", "U+1E148", "U+1E149", "U+1E2F0",
      "U+1E2F1", "U+1E2F2", "U+1E2F3", "U+1E2F4", "U+1E2F5", "U+1E2F6",
      "U+1E2F7", "U+1E2F8", "U+1E2F9", "U+1E950", "U+1E951", "U+1E952",
      "U+1E953", "U+1E954", "U+1E955", "U+1E956", "U+1E957", "U+1E958",
      "U+1E959", "U+1FBF0", "U+1FBF1", "U+1FBF2", "U+1FBF3", "U+1FBF4",
      "U+1FBF5", "U+1FBF6", "U+1FBF7", "U+1FBF8", "U+1FBF9">>

\* What \d matches: the digits of ASCII and those beyond.
Digits ==
    {"0", "1", "2", "3", "4", "5", "6", "7", "8", "9"}
        \cup {NonAsciiDigits[i] : i \in 1..Len(NonAsciiDigits)}

\* The value of a decimal digit: its place in its run of ten.
DigitVal(ch) ==
    LET ascii == <<"0", "1", "2", "3", "4", "5", "6", "7", "8", "9">>
    IN  IF \E i \in 1..10 : ascii[i] = ch
        THEN (CHOOSE i \in 1..10 : ascii[i] = ch) - 1
        ELSE ((CHOOSE i \in 1..Len(NonAsciiDigits) : NonAsciiDigits[i] = ch) - 1) % 10

\* The characters of the names and parameters, in code point order: the
\* blanks and the printable characters of ASCII, the blanks beyond ASCII and
\* the digits beyond ASCII.
CodePointOrder ==
    <<"\t", "\n", "U+000B", "\f", "\r", " ", "!", "\"", "#", "$", "%", "&",
      "'", "(", ")", "*", "+", ",", "-", ".", "/", "0", "1", "2", "3", "4",
      "5", "6", "7", "8", "9", ":", ";", "<", "=", ">", "?", "@", "A", "B",
      "C", "D", "E", "F", "G", "H", "I", "J", "K", "L", "M", "N", "O", "P",
      "Q", "R", "S", "T", "U", "V", "W", "X", "Y", "Z", "[", "\\", "]", "^",
      "_", "U+0060", "a", "b", "c", "d", "e", "f", "g", "h", "i", "j", "k", "l",
      "m", "n", "o", "p", "q", "r", "s", "t", "u", "v", "w", "x", "y", "z",
      "{", "|", "}", "~", "U+0085", "U+00A0", "U+0660", "U+0661", "U+0662",
      "U+0663", "U+0664", "U+0665", "U+0666", "U+0667", "U+0668", "U+0669",
      "U+06F0", "U+06F1", "U+06F2", "U+06F3", "U+06F4", "U+06F5", "U+06F6",
      "U+06F7", "U+06F8", "U+06F9", "U+07C0", "U+07C1", "U+07C2", "U+07C3",
      "U+07C4", "U+07C5", "U+07C6", "U+07C7", "U+07C8", "U+07C9", "U+0966",
      "U+0967", "U+0968", "U+0969", "U+096A", "U+096B", "U+096C", "U+096D",
      "U+096E", "U+096F", "U+09E6", "U+09E7", "U+09E8", "U+09E9", "U+09EA",
      "U+09EB", "U+09EC", "U+09ED", "U+09EE", "U+09EF", "U+0A66", "U+0A67",
      "U+0A68", "U+0A69", "U+0A6A", "U+0A6B", "U+0A6C", "U+0A6D", "U+0A6E",
      "U+0A6F", "U+0AE6", "U+0AE7", "U+0AE8", "U+0AE9", "U+0AEA", "U+0AEB",
      "U+0AEC", "U+0AED", "U+0AEE", "U+0AEF", "U+0B66", "U+0B67", "U+0B68",
      "U+0B69", "U+0B6A", "U+0B6B", "U+0B6C", "U+0B6D", "U+0B6E", "U+0B6F",
      "U+0BE6", "U+0BE7", "U+0BE8", "U+0BE9", "U+0BEA", "U+0BEB", "U+0BEC",
      "U+0BED", "U+0BEE", "U+0BEF", "U+0C66", "U+0C67", "U+0C68", "U+0C69",
      "U+0C6A", "U+0C6B", "U+0C6C", "U+0C6D", "U+0C6E", "U+0C6F", "U+0CE6",
      "U+0CE7", "U+0CE8", "U+0CE9", "U+0CEA", "U+0CEB", "U+0CEC", "U+0CED",
      "U+0CEE", "U+0CEF", "U+0D66", "U+0D67", "U+0D68", "U+0D69", "U+0D6A",
      "U+0D6B", "U+0D6C", "U+0D6D", "U+0D6E", "U+0D6F", "U+0DE6", "U+0DE7",
      "U+0DE8", "U+0DE9", "U+0DEA", "U+0DEB", "U+0DEC", "U+0DED", "U+0DEE",
      "U+0DEF", "U+0E50", "U+0E51", "U+0E52", "U+0E53", "U+0E54", "U+0E55",
      "U+0E56", "U+0E57", "U+0E58", "U+0E59", "U+0ED0", "U+0ED1", "U+0ED2",
      "U+0ED3", "U+0ED4", "U+0ED5", "U+0ED6", "U+0ED7", "U+0ED8", "U+0ED9",
      "U+0F20", "U+0F21", "U+0F22", "U+0F23", "U+0F24", "U+0F25", "U+0F26",
      "U+0F27", "U+0F28", "U+0F29", "U+1040", "U+1041", "U+1042", "U+1043",
      "U+1044", "U+1045", "U+1046", "U+1047", "U+1048", "U+1049", "U+1090",
      "U+1091", "U+1092", "U+1093", "U+1094", "U+1095", "U+1096", "U+1097",
      "U+1098", "U+1099", "U+1680", "U+17E0", "U+17E1", "U+17E2", "U+17E3",
      "U+17E4", "U+17E5", "U+17E6", "U+17E7", "U+17E8", "U+17E9", "U+1810",
      "U+1811", "U+1812", "U+1813", "U+1814", "U+1815", "U+1816", "U+1817",
      "U+1818", "U+1819", "U+1946", "U+1947", "U+1948", "U+1949", "U+194A",
      "U+194B", "U+194C", "U+194D", "U+194E", "U+194F", "U+19D0", "U+19D1",
      "U+19D2", "U+19D3", "U+19D4", "U+19D5", "U+19D6", "U+19D7", "U+19D8",
      "U+19D9", "U+1A80", "U+1A81", "U+1A82", "U+1A83", "U+1A84", "U+1A85",
      "U+1A86", "U+1A87", "U+1A88", "U+1A89", "U+1A90", "U+1A91", "U+1A92",
      "U+1A93", "U+1A94", "U+1A95", "U+1A96", "U+1A97", "U+1A98", "U+1A99",
      "U+1B50", "U+1B51", "U+1B52", "U+1B53", "U+1B54", "U+1B55", "U+1B56",
      "U+1B57", "U+1B58", "U+1B59", "U+1BB0", "U+1BB1", "U+1BB2", "U+1BB3",
      "U+1BB4", "U+1BB5", "U+1BB6", "U+1BB7", "U+1BB8", "U+1BB9", "U+1C40",
      "U+1C41", "U+1C42", "U+1C43", "U+1C44", "U+1C45", "U+1C46", "U+1C47",
      "U+1C48", "U+1C49", "U+1C50", "U+1C51", "U+1C52", "U+1C53", "U+1C54",
      "U+1C55", "U+1C56", "U+1C57", "U+1C58", "U+1C59", "U+2000", "U+2001",
      "U+2002", "U+2003", "U+2004", "U+2005", "U+2006", "U+2007", "U+2008",
      "U+2009", "U+200A", "U+2028", "U+2029", "U+202F", "U+205F", "U+3000",
      "U+A620", "U+A621", "U+A622", "U+A623", "U+A624", "U+A625", "U+A626",
      "U+A627", "U+A628", "U+A629", "U+A8D0", "U+A8D1", "U+A8D2", "U+A8D3",
      "U+A8D4", "U+A8D5", "U+A8D6", "U+A8D7", "U+A8D8", "U+A8D9", "U+A900",
      "U+A901", "U+A902", "U+A903", "U+A904", "U+A905", "U+A906", "U+A907",
      "U+A908", "U+A909", "U+A9D0", "U+A9D1", "U+A9D2", "U+A9D3", "U+A9D4",
      "U+A9D5", "U+A9D6", "U+A9D7", "U+A9D8", "U+A9D9", "U+A9F0", "U+A9F1",
      "U+A9F2", "U+A9F3", "U+A9F4", "U+A9F5", "U+A9F6", "U+A9F7", "U+A9F8",
      "U+A9F9", "U+AA50", "U+AA51", "U+AA52", "U+AA53", "U+AA54", "U+AA55",
      "U+AA56", "U+AA57", "U+AA58", "U+AA59", "U+ABF0", "U+ABF1", "U+ABF2",
      "U+ABF3", "U+ABF4", "U+ABF5", "U+ABF6", "U+ABF7", "U+ABF8", "U+ABF9",
      "U+FF10", "U+FF11", "U+FF12", "U+FF13", "U+FF14", "U+FF15", "U+FF16",
      "U+FF17", "U+FF18", "U+FF19", "U+104A0", "U+104A1", "U+104A2",
      "U+104A3", "U+104A4", "U+104A5", "U+104A6", "U+104A7", "U+104A8",
      "U+104A9", "U+10D30", "U+10D31", "U+10D32", "U+10D33", "U+10D34",
      "U+10D35", "U+10D36", "U+10D37", "U+10D38", "U+10D39", "U+11066",
      "U+11067", "U+11068", "U+11069", "U+1106A", "U+1106B", "U+1106C",
      "U+1106D", "U+1106E", "U+1106F", "U+110F0", "U+110F1", "U+110F2",
      "U+110F3", "U+110F4", "U+110F5", "U+110F6", "U+110F7", "U+110F8",
      "U+110F9", "U+11136", "U+11137", "U+11138", "U+11139", "U+1113A",
      "U+1113B", "U+1113C", "U+1113D", "U+1113E", "U+1113F", "U+111D0",
      "U+111D1", "U+111D2", "U+111D3", "U+111D4", "U+111D5", "U+111D6",
      "U+111D7", "U+111D8", "U+111D9", "U+112F0", "U+112F1", "U+112F2",
      "U+112F3", "U+112F4", "U+112F5", "U+112F6", "U+112F7", "U+112F8",
      "U+112F9", "U+11450", "U+11451", "U+11452", "U+11453", "U+11454",
      "U+11455", "U+11456", "U+11457", "U+11458", "U+11459", "U+114D0",
      "U+114D1", "U+114D2", "U+114D3", "U+114D4", "U+114D5", "U+114D6",
      "U+114D7", "U+114D8", "U+114D9", "U+11650", "U+11651", "U+11652",
      "U+11653", "U+11654", "U+11655", "U+11656", "U+11657", "U+11658",
      "U+11659", "U+116C0", "U+116C1", "U+116C2", "U+116C3", "U+116C4",
      "U+116C5", "U+116C6", "U+116C7", "U+116C8", "U+116C9", "U+11730",
      "U+11731", "U+11732", "U+11733", "U+11734", "U+11735", "U+11736",
      "U+11737", "U+11738", "U+11739", "U+118E0", "U+118E1", "U+118E2",
      "U+118E3", "U+118E4", "U+118E5", "U+118E6", "U+118E7", "U+118E8",
      "U+118E9", "U+11950", "U+11951", "U+11952", "U+11953", "U+11954",
      "U+11955", "U+11956", "U+11957", "U+11958", "U+11959", "U+11C50",
      "U+11C51", "U+11C52", "U+11C53", "U+11C54", "U+11C55", "U+11C56",
      "U+11C57", "U+11C58", "U+11C59", "U+11D50", "U+11D51", "U+11D52",
      "U+11D53", "U+11D54", "U+11D55", "U+11D56", "U+11D57", "U+11D58",
      "U+11D59", "U+11DA0", "U+11DA1", "U+11DA2", "U+11DA3", "U+11DA4",
      "U+11DA5", "U+11DA6", "U+11DA7", "U+11DA8", "U+11DA9", "U+16A60",
      "U+16A61", "U+16A62", "U+16A63", "U+16A64", "U+16A65", "U+16A66",
      "U+16A67", "U+16A68", "U+16A69", "U+16AC0", "U+16AC1", "U+16AC2",
      "U+16AC3", "U+16AC4", "U+16AC5", "U+16AC6", "U+16AC7", "U+16AC8",
      "U+16AC9", "U+16B50", "U+16B51", "U+16B52", "U+16B53", "U+16B54",
      "U+16B55", "U+16B56", "U+16B57", "U+16B58", "U+16B59", "U+1D7CE",
      "U+1D7CF", "U+1D7D0", "U+1D7D1", "U+1D7D2", "U+1D7D3", "U+1D7D4",
      "U+1D7D5", "U+1D7D6", "U+1D7D7", "U+1D7D8", "U+1D7D9", "U+1D7DA",
      "U+1D7DB", "U+1D7DC", "U+1D7DD", "U+1D7DE", "U+1D7DF", "U+1D7E0",
      "U+1D7E1", "U+1D7E2", "U+1D7E3", "U+1D7E4", "U+1D7E5", "U+1D7E6",
      "U+1D7E7", "U+1D7E8", "U+1D7E9", "U+1D7EA", "U+1D7EB", "U+1D7EC",
      "U+1D7ED", "U+1D7EE", "U+1D7EF", "U+1D7F0", "U+1D7F1", "U+1D7F2",
      "U+1D7F3", "U+1D7F4", "U+1D7F5", "U+1D7F6", "U+1D7F7", "U+1D7F8",
      "U+1D7F9", "U+1D7FA", "U+1D7FB", "U+1D7FC", "U+1D7FD", "U+1D7FE",
      "U+1D7FF", "U+1E140", "U+1E141", "U+1E142", "U+1E143", "U+1E144",
      "U+1E145", "U+1E146", "U+1E147", "U+1E148", "U+1E149", "U+1E2F0",
      "U+1E2F1", "U+1E2F2", "U+1E2F3", "U+1E2F4", "U+1E2F5", "U+1E2F6",
      "U+1E2F7", "U+1E2F8", "U+1E2F9", "U+1E950", "U+1E951", "U+1E952",
      "U+1E953", "U+1E954", "U+1E955", "U+1E956", "U+1E957", "U+1E958",
      "U+1E959", "U+1FBF0", "U+1FBF1", "U+1FBF2", "U+1FBF3", "U+1FBF4",
      "U+1FBF5", "U+1FBF6", "U+1FBF7", "U+1FBF8", "U+1FBF9">>

\* ord(ch), as far as the order of two characters goes: the place of ch
\* in that order.
ord(ch) == CHOOSE i \in 1..Len(CodePointOrder) : CodePointOrder[i] = ch

\* int() of a string of decimal digits.
RECURSIVE int(_)
int(s) ==
    IF s = <<>> THEN 0
    ELSE 10 * int(SubSeq(s, 1, Len(s) - 1)) + DigitVal(s[Len(s)])

\* Whether \d{4}-\d{2}-\d{2} matches fname at position i.
DateAt(fname, i) ==
    /\ i + 9 <= Len(fname)
    /\ \A k \in {0, 1, 2, 3, 5, 6, 8, 9} : fname[i + k] \in Digits
    /\ fname[i + 4] = "-"
    /\ fname[i + 7] = "-"

\* The position of the rightmost match instead of the leftmost.
DateLast(fname) ==
    IF \E i \in 1..Len(fname) : DateAt(fname, i)
    THEN CHOOSE i \in 1..Len(fname) :
            DateAt(fname, i) /\ \A j \in 1..Len(fname) : DateAt(fname, j) => j <= i
    ELSE 0

\* re.search(r"\d{4}-(\d{2})-\d{2}", fname): the position of the leftmost
\* match, 0 when there is none.
DateSearch(fname) ==
    IF \E i \in 1..Len(fname) : DateAt(fname, i)
    THEN CHOOSE i \in 1..Len(fname) :
            DateAt(fname, i) /\ \A j \in 1..(i - 1) : ~DateAt(fname, j)
    ELSE 0

\* match.group(1) of the month pattern, match.group(1), group(2) of the
\* year-month pattern.
MonthGroup(fname, i) == SubSeq(fname, i + 5, i + 6)

YearGroup(fname, i) == SubSeq(fname, i, i + 3)

\* dict[key].append(v) on a defaultdict(list).
DictAppend(d, k, v) ==
    IF k \in DOMAIN d THEN [d EXCEPT ![k] = Append(@, v)] ELSE d @@ (k :> <<v>>)

\* data = band.ReadAsArray(...).astype(np.float32); data[data == nd] = 0
CalData(f, p) ==
    LET data == AsFloat32(ReadPixel(f, p))
    IN  IF f.nodata # None /\ data = AsFloat32(f.nodata) THEN WZero ELSE data

\* A missing month adds 1 instead of nothing.
MissingAddsOne(acc) == AddFloat32(acc, WInt(1))

\* "Missing month -> add zeros": block_sum += 0
MissingMonth(acc) == AddFloat32(acc, WZero)

\* block_sum after the loop over paths[1..n] (a None entry is a missing
\* month), at probe p.
RECURSIVE CalBlockSum(_, _, _)
CalBlockSum(paths, n, p) ==
    IF n = 0 THEN WZero
    ELSE IF paths[n] = None
         THEN MissingMonth(CalBlockSum(paths, n - 1, p))
         ELSE AddFloat32(CalBlockSum(paths, n - 1, p), CalData(Open(paths[n]), p))

\* The gdal.Open calls of one block: one per entry that is a path.
OpenedBy(paths) == SelectSeq(paths, LAMBDA e : e # None)

(***************************************************************************)
(* MonthlyFrequencyAlgorithm.processAlgorithm (monthly_frequency.py).      *)
(***************************************************************************)
\* A classification that stops at the first .tif without a date.
RECURSIVE MonthScanStops(_, _)
MonthScanStops(fs, d) ==
    IF fs = <<>> THEN d
    ELSE LET f == Head(fs)
             i == DateSearch(f.name)
         IN  IF IsTif(f.name) /\ i = 0 THEN d
             ELSE MonthScanStops(Tail(fs),
                                 IF IsTif(f.name)
                                 THEN DictAppend(d, MonthGroup(f.name, i), Path(f))
                                 ELSE d)

\* Lines 78-88 for the files fs: rasters_by_month after them, from d.
RECURSIVE MonthScan(_, _)
MonthScan(fs, d) ==
    IF fs = <<>> THEN d
    ELSE LET f == Head(fs)
             i == DateSearch(f.name)
         IN  MonthScan(Tail(fs),
                       IF IsTif(f.name) /\ i # 0
                       THEN DictAppend(d, MonthGroup(f.name, i), Path(f))
                       ELSE d)

\* The file names reported as skipped: .tif files without a date.
RECURSIVE MonthSkipped(_)
MonthSkipped(fs) ==
    IF fs = <<>> THEN <<>>
    ELSE (IF IsTif(Head(fs).name) /\ DateSearch(Head(fs).name) = 0
          THEN <<Head(fs).name>> ELSE <<>>) \o MonthSkipped(Tail(fs))

\* What lines 86 and 88 say for the files fs, in walk order.
RECURSIVE MonthMessages(_)
MonthMessages(fs) ==
    IF fs = <<>> THEN <<>>
    ELSE LET f == Head(fs)
             i == DateSearch(f.name)
         IN  (IF ~IsTif(f.name) THEN <<>>
              ELSE IF i # 0 THEN <<pushInfo("month", <<f.name, MonthGroup(f.name, i)>>)>>
              ELSE <<pushInfo("Skipping", f.name)>>) \o MonthMessages(Tail(fs))

\* Line 145 (monthly), line 246 (seasonal): said before the return.
AllCreated == <<pushInfo("All created", "maps")>>

\* Order of the month keys: str comparison of two-digit tokens, character
\* by character in code point order.
MonthLess(a, b) ==
    \/ ord(a[1]) < ord(b[1])
    \/ a[1] = b[1] /\ ord(a[2]) < ord(b[2])

\* sorted(rasters_by_month.items()): the month keys S in ascending order.
RECURSIVE SortedMonths(_)
SortedMonths(S) ==
    IF S = {} THEN <<>>
    ELSE LET m == CHOOSE k \in S : \A o \in S : o = k \/ MonthLess(k, o)
         IN  <<m>> \o SortedMonths(S \ {m})

\* Lines 74-88: classify the files of the walk.
MonStart ==
    /\ alg = "monthly" /\ pc = "start"
    /\ rasters_by_month' = MonthScan(listing, <<>>)
    /\ skipped' = MonthSkipped(listing)
    /\ todo' = SortedMonths(DOMAIN rasters_by_month')
    /\ IF todo' = <<>>
       THEN /\ pc' = "done" /\ report' = "completed"
            /\ messages' = messages \o MonthMessages(listing) \o AllCreated
       ELSE /\ pc' = "unit" /\ report' = report
            /\ messages' = messages \o MonthMessages(listing)
    /\ UNCHANGED events
    /\ UNCHANGED <<prepVars, plugVars, params, outputs, user_pixel_area, out_of_range>>
    /\ UNCHANGED <<load_maps, threshold, date_id, fields, out_ds, layers>>
    /\ UNCHANGED <<alg, listing, dtype_idx, seasons, all_rasters, rasters,
                   season_raster_map, final_files, cols, rows, y, x, block_sum,
                   out_px, writes, opened, progress, results, canceled, cancelAt>>

\* Lines 91-112: the next month, its grid from rasters[0], its output.
MonUnit ==
    /\ alg = "monthly" /\ pc = "unit"
    /\ rasters' = rasters_by_month[Head(todo)]
    /\ messages' = Append(messages, pushInfo("Processing", <<Head(todo), Len(rasters')>>))
    /\ CreateOutput(rasters'[1], "Float32")
    /\ pc' = "blocks"
    /\ UNCHANGED <<prepVars, plugVars, params, outputs, user_pixel_area, out_of_range>>
    /\ UNCHANGED <<load_maps, threshold, date_id, fields, layers>>
    /\ UNCHANGED <<alg, listing, dtype_idx, seasons, all_rasters, rasters_by_month,
                   season_raster_map, todo, final_files, progress, results,
                   skipped, canceled, cancelAt, report>>

\* Lines 114-130: one block of the nested loops.
MonBlock ==
    /\ alg = "monthly" /\ pc = "blocks"
    /\ LET rows_to_read == BlockExtent(rows, y)
           cols_to_read == BlockExtent(cols, x)
           win == Window(x, y, cols_to_read, rows_to_read)
           sum == [p \in win |-> CalBlockSum(rasters, Len(rasters), p)]
           bad == FirstFailing(rasters, x, y, cols_to_read, rows_to_read)
       IN  IF bad # 0
           THEN ReadError(OpenedBy(SubSeq(rasters, 1, bad)))
           ELSE /\ block_sum' = sum
                /\ opened' = opened \o OpenedBy(rasters)
                /\ BlockDone(rasters)
                /\ WriteArray(sum, x, y, cols_to_read, rows_to_read)
                /\ LoopStep(FALSE)
                /\ report' = report
    /\ UNCHANGED <<prepVars, plugVars, params, outputs, user_pixel_area, out_of_range>>
    /\ UNCHANGED <<load_maps, threshold, date_id, fields, out_ds, messages, layers>>
    /\ UNCHANGED <<alg, listing, dtype_idx, seasons, all_rasters, rasters_by_month,
                   rasters, season_raster_map, todo, final_files, cols, rows,
                   results, skipped, canceled, cancelAt>>

\* Lines 132-146: flush the month's output; after the last month, return.
MonFinish ==
    /\ alg = "monthly" /\ pc = "flush"
    /\ results' = Append(results, [key |-> Head(todo), cols |-> cols, rows |-> rows,
                                   files |-> rasters, px |-> out_px,
                                   writes |-> writes])
    /\ todo' = Tail(todo)
    /\ IF todo' = <<>>
       THEN pc' = "done" /\ report' = "completed" /\ Finalize(Head(todo), AllCreated)
       ELSE pc' = "unit" /\ report' = report /\ Finalize(Head(todo), <<>>)
    /\ UNCHANGED <<prepVars, plugVars, params, outputs, user_pixel_area, out_of_range>>
    /\ UNCHANGED <<load_maps, threshold, date_id, fields, out_ds>>
    /\ UNCHANGED <<alg, listing, dtype_idx, seasons, all_rasters, rasters_by_month,
                   rasters, season_raster_map, final_files, cols, rows, y, x,
                   block_sum, out_px, writes, opened, progress, skipped, canceled,
                   cancelAt>>

InitMonthly ==
    /\ alg = "monthly"
    /\ \E g \in CalGridSizes : listing \in Listings(CalFiles(g), MaxFiles)
    /\ dtype_idx = 5
    /\ load_maps \in BOOLEAN
    /\ threshold = None
    /\ date_id = None
    /\ seasons = <<>>
    /\ user_pixel_area = 0
    /\ out_of_range = "wraps"
    /\ NoPrepInputs
    /\ params = None
    /\ InitCommon

(***************************************************************************)
(* SeasonalFrequencyAlgorithm.processAlgorithm (seasonal_frequency.py).    *)
(***************************************************************************)
\* The seasons dicts of the runs: <<season_name, months>> in insertion
\* order, the months as two-digit tokens in the user's order.
SeasonTables ==
    {
       << <<"DJF", <<<<"1", "2">>, <<"0", "1">>, <<"0", "2">>>>>> >>,
       << <<"ODD", <<<<"0", "2">>, <<"1", "2">>, <<"0", "1">>>>>> >>,
       << <<"JFM", <<<<"0", "1">>, <<"0", "2">>, <<"0", "3">>>>>>,
          <<"DJF", <<<<"1", "2">>, <<"0", "1">>, <<"0", "2">>>>>> >>
    }

\* seasons[season_name]
SeasonMonths(name) ==
    seasons[CHOOSE i \in 1..Len(seasons) : seasons[i][1] = name][2]

InSeq(e, s) == \E i \in 1..Len(s) : s[i] = e

\* str comparison of the season names in use.
StrLess(a, b) ==
    LET order == <<"DJF", "JFM", "ODD">>
        at(n) == CHOOSE i \in 1..Len(order) : order[i] = n
    IN  at(a) < at(b)

\* Lines 131-147 for the files fs: the (year, month, path) entries collected.
RECURSIVE CollectRasters(_)
CollectRasters(fs) ==
    IF fs = <<>> THEN <<>>
    ELSE LET f == Head(fs)
             i == DateSearch(f.name)
             year == IF i = 0 THEN 0 ELSE int(YearGroup(f.name, i))
         IN  (IF IsTif(f.name) /\ i # 0 /\ year # 0
              THEN << <<year, MonthGroup(f.name, i), Path(f)>> >>
              ELSE <<>>) \o CollectRasters(Tail(fs))

\* The names warned about as bad: .tif files without a date or with year 0.
RECURSIVE SeasonSkipped(_)
SeasonSkipped(fs) ==
    IF fs = <<>> THEN <<>>
    ELSE LET f == Head(fs)
             i == DateSearch(f.name)
             year == IF i = 0 THEN 0 ELSE int(YearGroup(f.name, i))
         IN  (IF IsTif(f.name) /\ (i = 0 \/ year = 0) THEN <<f.name>> ELSE <<>>)
             \o SeasonSkipped(Tail(fs))

\* key=lambda x: (x[0], int(x[1]))
ObsLeq(o1, o2) == o1[1] < o2[1] \/ (o1[1] = o2[1] /\ int(o1[2]) <= int(o2[2]))

\* rasters.sort(key = ...): a stable sort, here by insertion.
RECURSIVE SortRasters(_)
SortRasters(rs) ==
    IF rs = <<>> THEN <<>>
    ELSE LET init == SortRasters(SubSeq(rs, 1, Len(rs) - 1))
             o == rs[Len(rs)]
             keep == Cardinality({i \in 1..Len(init) : ObsLeq(init[i], o)})
         IN  SubSeq(init, 1, keep) \o <<o>> \o SubSeq(init, keep + 1, Len(init))

\* The season year without the rollover.
SeasonYearNoRollover(yr, m_int, first_month) == yr

\* A rollover decided against January instead of the season's first month.
SeasonYearFromJanuary(yr, m_int, first_month) ==
    IF m_int >= 1 THEN yr ELSE yr - 1

\* Lines 160-163: "Decide season year".
SeasonYear(yr, m_int, first_month) ==
    IF m_int >= first_month THEN yr ELSE yr - 1

\* Lines 156-164 for one season and the rasters rs: the map after them.
RECURSIVE MapSeason(_, _, _)
MapSeason(season, rs, d) ==
    IF rs = <<>> THEN d
    ELSE LET o == Head(rs)
             first_month == int(season[2][1])
             season_year == SeasonYear(o[1], int(o[2]), first_month)
         IN  MapSeason(season, Tail(rs),
                       IF InSeq(o[2], season[2])
                       THEN DictAppend(d, <<season_year, season[1]>>, o)
                       ELSE d)

\* A loop over the seasons that stops after the first season.
MapSeasonsFirstOnly(ss, rs, d) ==
    IF ss = <<>> THEN d ELSE MapSeason(Head(ss), rs, d)

\* Lines 153-164: the loop over seasons.items(), in insertion order.
RECURSIVE MapSeasons(_, _, _)
MapSeasons(ss, rs, d) ==
    IF ss = <<>> THEN d
    ELSE MapSeasons(Tail(ss), rs, MapSeason(Head(ss), rs, d))

\* Order of the keys (season_year, season_name): tuple comparison.
KeyLess(a, b) == a[1] < b[1] \/ (a[1] = b[1] /\ StrLess(a[2], b[2]))

\* The keys S in descending order.
RECURSIVE KeysDescending(_)
KeysDescending(S) ==
    IF S = {} THEN <<>>
    ELSE LET m == CHOOSE k \in S : \A o \in S : o = k \/ KeyLess(o, k)
         IN  <<m>> \o KeysDescending(S \ {m})

\* sorted(season_raster_map.items()): the keys S in ascending order.
RECURSIVE SortedKeys(_)
SortedKeys(S) ==
    IF S = {} THEN <<>>
    ELSE LET m == CHOOSE k \in S : \A o \in S : o = k \/ KeyLess(k, o)
         IN  <<m>> \o SortedKeys(S \ {m})

\* A gap-filling that leaves the missing months out.
RECURSIVE FinalFilesNoGaps(_, _)
FinalFilesNoGaps(ms, month_files) ==
    IF ms = <<>> THEN <<>>
    ELSE (IF \E i \in 1..Len(month_files) : month_files[i][2] = Head(ms)
          THEN <<month_files[CHOOSE i \in 1..Len(month_files) :
                     /\ month_files[i][2] = Head(ms)
                     /\ \A j \in 1..(i - 1) : month_files[j][2] # Head(ms)][3]>>
          ELSE <<>>) \o FinalFilesNoGaps(Tail(ms), month_files)

\* A final file list that takes every observation of a month.
RECURSIVE FinalFilesEveryMatch(_, _)
FinalFilesEveryMatch(ms, month_files) ==
    IF ms = <<>> THEN <<>>
    ELSE LET hits == SelectSeq(month_files, LAMBDA o : o[2] = Head(ms))
         IN  (IF hits = <<>> THEN <<None>> ELSE [i \in 1..Len(hits) |-> hits[i][3]])
             \o FinalFilesEveryMatch(Tail(ms), month_files)

\* Lines 174-184: the final file list in the season's month order ms, the
\* first entry of month_files with that month, None for a missing month.
RECURSIVE FinalFiles(_, _)
FinalFiles(ms, month_files) ==
    IF ms = <<>> THEN <<>>
    ELSE (IF \E i \in 1..Len(month_files) : month_files[i][2] = Head(ms)
          THEN <<month_files[CHOOSE i \in 1..Len(month_files) :
                     /\ month_files[i][2] = Head(ms)
                     /\ \A j \in 1..(i - 1) : month_files[j][2] # Head(ms)][3]>>
          ELSE <<None>>) \o FinalFiles(Tail(ms), month_files)

\* Lines 175-184: month_year_list, per month of the season its token and the
\* year of the observation used (None for a missing month).
RECURSIVE MonthYearList(_, _)
MonthYearList(ms, month_files) ==
    IF ms = <<>> THEN <<>>
    ELSE (IF \E i \in 1..Len(month_files) : month_files[i][2] = Head(ms)
          THEN << <<Head(ms), month_files[CHOOSE i \in 1..Len(month_files) :
                     /\ month_files[i][2] = Head(ms)
                     /\ \A j \in 1..(i - 1) : month_files[j][2] # Head(ms)][1]>> >>
          ELSE << <<Head(ms), None>> >>) \o MonthYearList(Tail(ms), month_files)

\* What line 145 warns about for the files fs, in walk order.
RECURSIVE SeasonWarnings(_)
SeasonWarnings(fs) ==
    IF fs = <<>> THEN <<>>
    ELSE LET f == Head(fs)
             i == DateSearch(f.name)
             year == IF i = 0 THEN 0 ELSE int(YearGroup(f.name, i))
         IN  (IF IsTif(f.name) /\ (i = 0 \/ year = 0)
              THEN <<pushWarning("Skipping", f.name)>> ELSE <<>>)
             \o SeasonWarnings(Tail(fs))

\* The first raster of the whole run instead of the first of the unit.
FirstOfRun(ff) == rasters[1][3]

\* The last available raster instead of the first.
LastAvailable(ff) ==
    ff[CHOOSE i \in 1..Len(ff) : ff[i] # None /\ \A j \in (i + 1)..Len(ff) : ff[j] = None]

\* Lines 190-198: the first available raster of the final file list.
FirstAvailable(ff) ==
    ff[CHOOSE i \in 1..Len(ff) : ff[i] # None /\ \A j \in 1..(i - 1) : ff[j] = None]

\* Lines 131-164: collect and sort the rasters, map them to season years.
SeaStart ==
    /\ alg = "seasonal" /\ pc = "start"
    /\ rasters' = SortRasters(CollectRasters(listing))
    /\ skipped' = SeasonSkipped(listing)
    /\ season_raster_map' = MapSeasons(seasons, rasters', <<>>)
    /\ todo' = SortedKeys(DOMAIN season_raster_map')
    /\ IF todo' = <<>>
       THEN /\ pc' = "done" /\ report' = "completed"
            /\ messages' = messages \o <<pushInfo("Using", Len(seasons))>>
                             \o SeasonWarnings(listing) \o AllCreated
       ELSE /\ pc' = "unit" /\ report' = report
            /\ messages' = messages \o <<pushInfo("Using", Len(seasons))>>
                             \o SeasonWarnings(listing)
    /\ UNCHANGED events
    /\ UNCHANGED <<prepVars, plugVars, params, outputs, user_pixel_area, out_of_range>>
    /\ UNCHANGED <<load_maps, threshold, date_id, fields, out_ds, layers>>
    /\ UNCHANGED <<alg, listing, dtype_idx, seasons, all_rasters, rasters_by_month,
                   final_files, cols, rows, y, x, block_sum, out_px, writes,
                   opened, progress, results, canceled, cancelAt>>

\* Lines 169-207: the next season-year, its final file list, its output.
SeaUnit ==
    /\ alg = "seasonal" /\ pc = "unit"
    /\ final_files' = FinalFiles(SeasonMonths(Head(todo)[2]),
                                 season_raster_map[Head(todo)])
    /\ messages' = messages \o
          <<pushInfo("Processing", <<Head(todo), Len(season_raster_map[Head(todo)])>>),
            pushInfo("Months", MonthYearList(SeasonMonths(Head(todo)[2]),
                                             season_raster_map[Head(todo)]))>>
    /\ CreateOutput(FirstAvailable(final_files'), "Float32")
    /\ pc' = "blocks"
    /\ UNCHANGED <<prepVars, plugVars, params, outputs, user_pixel_area, out_of_range>>
    /\ UNCHANGED <<load_maps, threshold, date_id, fields, layers>>
    /\ UNCHANGED <<alg, listing, dtype_idx, seasons, all_rasters, rasters_by_month,
                   rasters, season_raster_map, todo, progress, results, skipped,
                   canceled, cancelAt, report>>

\* Lines 210-230: one block of the nested loops.
SeaBlock ==
    /\ alg = "seasonal" /\ pc = "blocks"
    /\ LET rows_to_read == BlockExtent(rows, y)
           cols_to_read == BlockExtent(cols, x)
           win == Window(x, y, cols_to_read, rows_to_read)
           sum == [p \in win |-> CalBlockSum(final_files, Len(final_files), p)]
           bad == FirstFailing(final_files, x, y, cols_to_read, rows_to_read)
       IN  IF bad # 0
           THEN ReadError(OpenedBy(SubSeq(final_files, 1, bad)))
           ELSE /\ block_sum' = sum
                /\ opened' = opened \o OpenedBy(final_files)
                /\ BlockDone(final_files)
                /\ WriteArray(sum, x, y, cols_to_read, rows_to_read)
                /\ LoopStep(FALSE)
                /\ report' = report
    /\ UNCHANGED <<prepVars, plugVars, params, outputs, user_pixel_area, out_of_range>>
    /\ UNCHANGED <<load_maps, threshold, date_id, fields, out_ds, messages, layers>>
    /\ UNCHANGED <<alg, listing, dtype_idx, seasons, all_rasters, rasters_by_month,
                   rasters, season_raster_map, todo, final_files, cols, rows,
                   results, skipped, canceled, cancelAt>>

\* Lines 232-247: flush the season's output; after the last one, return.
SeaFinish ==
    /\ alg = "seasonal" /\ pc = "flush"
    /\ results' = Append(results, [key |-> Head(todo), cols |-> cols, rows |-> rows,
                                   files |-> final_files, px |-> out_px,
                                   writes |-> writes])
    /\ todo' = Tail(todo)
    /\ IF todo' = <<>>
       THEN pc' = "done" /\ report' = "completed" /\ Finalize(Head(todo), AllCreated)
       ELSE pc' = "unit" /\ report' = report /\ Finalize(Head(todo), <<>>)
    /\ UNCHANGED <<prepVars, plugVars, params, outputs, user_pixel_area, out_of_range>>
    /\ UNCHANGED <<load_maps, threshold, date_id, fields, out_ds>>
    /\ UNCHANGED <<alg, listing, dtype_idx, seasons, all_rasters, rasters_by_month,
                   rasters, season_raster_map, final_files, cols, rows, y, x,
                   block_sum, out_px, writes, opened, progress, skipped, canceled,
                   cancelAt>>

\* Grid size and LOAD_MAPS of the seasonal runs: the one-block grid with the
\* maps loaded (the default), the grid of two blocks without.
SeaOptions == {<<<<2, 2>>, TRUE>>, <<<<513, 2>>, FALSE>>}

InitSeasonal ==
    /\ alg = "seasonal"
    /\ \E o \in SeaOptions :
          listing \in Listings(CalFiles(o[1]), MaxFiles) /\ load_maps = o[2]
    /\ dtype_idx = 5
    /\ threshold = None
    /\ date_id = None
    /\ seasons \in SeasonTables
    /\ user_pixel_area = 0
    /\ out_of_range = "wraps"
    /\ NoPrepInputs
    /\ params = None
    /\ InitCommon

(***************************************************************************)
(* BinaryConversionAlgorithm.processAlgorithm (binary_conversion.py).      *)
(***************************************************************************)
\* Grid sizes of the input raster of a binary conversion.
BinGridSizes == {<<2, 2>>, <<512, 2>>}

\* The THRESHOLD values of the runs, doubles: -1, 0, 0.1 (the double nearest
\* to it, 7205759403792794 / 2^56), 0.5, 1, 9 and 300.
Thresholds ==
    {WInt(0 - 1), WZero, R(0, 0, 26843545, 161061274), R(0, 0, FBase \div 2, 0),
     WInt(1), WInt(9), WInt(300)}

\* The input rasters of the runs: the .tif rasters of the summation folders
\* and tenth.tif, a Float32 raster whose nodata value is NaN, with the
\* values float32(0.1) = 13421773 / 2^27 and NaN.
BinFiles(g) ==
    {f \in SumFiles(g) : IsTif(f.name)} \cup
    {[root |-> "in", name |-> <<"t", "e", "n", "t", "h", ".", "t", "i", "f">>, dtype |-> "Float32",
      cols |-> g[1], rows |-> g[2], geo |-> "gt0", proj |-> "EPSG:4326", nodata |-> NaN,
      a |-> R(0, 0, 26843546, 0), b |-> NaN]}

\* A Python float val as numpy takes it in arr == val and arr > val for the band
\* of f as read: at the precision of a float32 array; beside an integer
\* array both sides are float64, which holds every pixel value exactly.
Operand(f, val) == IF IsFloat32(f) THEN Float32Of(val) ELSE val

\* Lines 91-93: arr[arr == nodata] = 0, on the array as read (no
\* conversion); NaN equals nothing.
NodataToZero(f, v) ==
    IF f.nodata # None /\ v # NaN /\ f.nodata # NaN /\ v = Operand(f, f.nodata)
    THEN WZero ELSE v

\* Line 96: np.where(arr > threshold, 1, 0).astype(np.uint8), one pixel;
\* NaN is greater than nothing.
Binary(f, v, th) ==
    IF v # NaN /\ RLess(Operand(f, th), v) THEN WInt(1) ELSE WZero

\* Lines 87-96: open the input, read the whole band and convert it (the
\* array made is that of BinaryWrite).
BinaryRead ==
    /\ alg = "binary" /\ pc = "start"
    /\ opened' = <<Path(listing[1])>>
    /\ events' = <<Ev("open", Path(listing[1])), Ev("read", Path(listing[1]))>>
    /\ pc' = "create"
    /\ UNCHANGED <<prepVars, plugVars, params, outputs, user_pixel_area, out_of_range>>
    /\ UNCHANGED <<load_maps, threshold, date_id, fields, out_ds, messages, layers>>
    /\ UNCHANGED <<alg, listing, dtype_idx, seasons, all_rasters, rasters_by_month,
                   rasters, season_raster_map, todo, final_files, cols, rows, y, x,
                   block_sum, out_px, writes, progress, results, skipped, canceled,
                   cancelAt, report>>

\* Lines 98-117: driver.Create makes the one-band Byte output on the grid of
\* the input, which is given the geotransform and the projection of the
\* input.
BinaryCreate ==
    /\ alg = "binary" /\ pc = "create"
    /\ LET ds == Open(opened[1])
       IN  /\ cols' = ds.cols
           /\ rows' = ds.rows
           /\ out_ds' = [cols |-> ds.cols, rows |-> ds.rows, bands |-> 1,
                         dtype |-> "Byte", geo |-> ds.geo, proj |-> ds.proj,
                         nodata |-> None]
           /\ out_px' = [p \in Probes(ds.cols, ds.rows) |-> WZero]
    /\ events' = Append(events, Ev("create", Out))
    /\ pc' = "write"
    /\ UNCHANGED <<prepVars, plugVars, params, outputs, user_pixel_area, out_of_range>>
    /\ UNCHANGED <<load_maps, threshold, date_id, fields, messages, layers>>
    /\ UNCHANGED <<alg, listing, dtype_idx, seasons, all_rasters, rasters_by_month,
                   rasters, season_raster_map, todo, final_files, y, x, block_sum,
                   writes, opened, progress, results, skipped, canceled, cancelAt,
                   report>>

\* Lines 118-119: out_band.WriteArray(binary), the whole band at once.
BinaryWrite ==
    /\ alg = "binary" /\ pc = "write"
    /\ LET ds == Open(opened[1])
           binary == [p \in Probes(ds.cols, ds.rows) |->
                         Binary(ds, NodataToZero(ds, ReadPixel(ds, p)), threshold)]
       IN  WriteArray(binary, 0, 0, cols, rows)
    /\ events' = Append(events, Ev("write", Out))
    /\ pc' = "close"
    /\ UNCHANGED <<prepVars, plugVars, params, outputs, user_pixel_area, out_of_range>>
    /\ UNCHANGED <<load_maps, threshold, date_id, fields, out_ds, messages, layers>>
    /\ UNCHANGED <<alg, listing, dtype_idx, seasons, all_rasters, rasters_by_month,
                   rasters, season_raster_map, todo, final_files, cols, rows, y, x,
                   block_sum, opened, progress, results, skipped, canceled,
                   cancelAt, report>>

\* Lines 120-125: the nodata value 0 is set, the output flushed and closed,
\* the input closed, and the run returns the output.
BinaryClose ==
    /\ alg = "binary" /\ pc = "close"
    /\ out_ds' = [out_ds EXCEPT !.nodata = 0]
    /\ events' = events \o <<Ev("flush", Out), Ev("close", Out), Ev("close", opened[1])>>
    /\ pc' = "done"
    /\ report' = "completed"
    /\ UNCHANGED <<prepVars, plugVars, params, outputs, user_pixel_area, out_of_range>>
    /\ UNCHANGED <<load_maps, threshold, date_id, fields, messages, layers>>
    /\ UNCHANGED <<alg, listing, dtype_idx, seasons, all_rasters, rasters_by_month,
                   rasters, season_raster_map, todo, final_files, cols, rows, y, x,
                   block_sum, out_px, writes, opened, progress, results, skipped,
                   canceled, cancelAt>>

InitBinary ==
    /\ alg = "binary"
    /\ \E g \in BinGridSizes : \E f \in BinFiles(g) : listing = <<f>>
    /\ threshold \in Thresholds
    /\ dtype_idx = 0
    /\ load_maps = FALSE
    /\ date_id = None
    /\ seasons = <<>>
    /\ user_pixel_area = 0
    /\ out_of_range = "wraps"
    /\ NoPrepInputs
    /\ params = None
    /\ InitCommon

(***************************************************************************)
(* The field key of a raster in ZonalStatsMultipleRastersAlgorithm         *)
(* (zonal_statistics_multiple_rasters.py, "zonal"),                        *)
(* ZonalStatsWithAreaCalculationAlgorithm (area_calculation.py, "area")    *)
(* and MonthlyZonalStatsAlgorithm (monthly_zonal_statistics.py,            *)
(* "monthly_zonal").  The zonal statistics, field calculations and the     *)
(* saving of the layer are calls into the processing toolbox.              *)
(***************************************************************************)
KeyAlgs == {"zonal", "area", "monthly_zonal"}

\* The files of the raster folders; valid is whether QgsRasterLayer can
\* load the file.
KeyFiles ==
    {
       [root |-> "rasters", valid |-> TRUE, name |-> <<"f", "l", "o", "o", "d", "_", "2", "0", "2", "1", "-", "0", "1", "-", "1", "5", ".", "t", "i", "f">>],
       [root |-> "rasters", valid |-> TRUE, name |-> <<"f", "_", "2", "0", "2", "1", "-", "0", "2", "-", "0", "9", "_", "x", ".", "t", "i", "f">>],
       [root |-> "rasters", valid |-> FALSE, name |-> <<"b", "a", "d", "_", "2", "0", "2", "1", "-", "0", "3", "-", "0", "1", "_", "y", ".", "t", "i", "f">>],
       [root |-> "rasters", valid |-> TRUE, name |-> <<"f", "l", "o", "o", "d", ".", "t", "i", "f">>],
       [root |-> "rasters", valid |-> TRUE, name |-> <<"n", "o", "t", "e", "s", ".", "t", "x", "t">>]
    }

\* The PIXEL_AREA values of the runs: not given, and 900 square metres.
PixelAreas == {0, 900}

\* The DATE_ID strings of the runs: "5:7", ":4" with the 4 written as the
\* Arabic-Indic digit U+0664, "-2:", "7", "\f0_1: 3" and "1__0:".
DateIds ==
    {<<"5", ":", "7">>, <<":", "U+0664">>, <<"-", "2", ":">>, <<"7">>,
     <<"\f", "0", "_", "1", ":", " ", "3">>, <<"1", "_", "_", "0", ":">>}

\* glob.glob(os.path.join(raster_folder, "*.tif")): the names that end in
\* ".tif" and do not begin with a dot.
GlobTif(fname) ==
    /\ Len(fname) >= 4
    /\ SubSeq(fname, Len(fname) - 3, Len(fname)) = <<".", "t", "i", "f">>
    /\ fname[1] # "."

RECURSIVE Glob(_)
Glob(fs) ==
    IF fs = <<>> THEN <<>>
    ELSE (IF GlobTif(Head(fs).name) THEN <<Head(fs).name>> ELSE <<>>) \o Glob(Tail(fs))

\* s < t for two strings.
StrBefore(s, t) ==
    \E k \in 1..Len(t) :
        /\ Len(s) >= k - 1
        /\ \A j \in 1..(k - 1) : s[j] = t[j]
        /\ Len(s) = k - 1 \/ ord(s[k]) < ord(t[k])

\* sorted(names), for names without repetition.
RECURSIVE sorted(_)
sorted(names) ==
    IF names = <<>> THEN <<>>
    ELSE LET S == {names[i] : i \in 1..Len(names)}
             m == CHOOSE n \in S : \A o \in S : o = n \/ StrBefore(n, o)
         IN  <<m>> \o sorted(SelectSeq(names, LAMBDA n : n # m))

\* os.path.splitext(os.path.basename(raster_path))[0]: the name up to its
\* last dot, or the whole name when it has no dot or when only dots come
\* before the last one (the dots that begin a name are skipped).
splitext(fname) ==
    IF \E i \in 1..Len(fname) : fname[i] = "."
    THEN LET dotIndex == CHOOSE i \in 1..Len(fname) :
                             fname[i] = "." /\ \A j \in (i + 1)..Len(fname) : fname[j] # "."
         IN  IF \E j \in 1..(dotIndex - 1) : fname[j] # "."
             THEN SubSeq(fname, 1, dotIndex - 1)
             ELSE fname
    ELSE fname

\* s.split(sep)
RECURSIVE split(_, _)
split(s, sep) ==
    IF \E i \in 1..Len(s) : s[i] = sep
    THEN LET i == CHOOSE j \in 1..Len(s) : s[j] = sep /\ \A l \in 1..(j - 1) : s[l] # sep
         IN  <<SubSeq(s, 1, i - 1)>> \o split(SubSeq(s, i + 1, Len(s)), sep)
    ELSE <<s>>

\* The blanks int() strips from both ends of its argument: the six of
\* ASCII and the spaces beyond it.  A character that cannot be written in a
\* string here stands as the name of its code point.
Blanks ==
    {" ", "\t", "\n", "\f", "\r", "U+000B", "U+0085", "U+00A0", "U+1680",
     "U+2000", "U+2001", "U+2002", "U+2003", "U+2004", "U+2005", "U+2006",
     "U+2007", "U+2008", "U+2009", "U+200A", "U+2028", "U+2029", "U+202F",
     "U+205F", "U+3000"}

\* s.strip()
RECURSIVE strip(_)
strip(s) ==
    IF s = <<>> THEN s
    ELSE IF s[1] \in Blanks THEN strip(Tail(s))
    ELSE IF s[Len(s)] \in Blanks THEN strip(SubSeq(s, 1, Len(s) - 1))
    ELSE s

\* The digits of the literal int() reads: s without the blanks around it
\* and without its sign.
Unsigned(s) ==
    LET t == strip(s) IN IF t # <<>> /\ t[1] \in {"-", "+"} THEN Tail(t) ELSE t

\* Whether int(s) succeeds: blanks around, an optional sign, and decimal
\* digits with single underscores between them.
IntOk(s) ==
    LET body == Unsigned(s)
    IN  /\ body # <<>>
        /\ body[1] \in Digits /\ body[Len(body)] \in Digits
        /\ \A i \in 1..Len(body) :
              \/ body[i] \in Digits
              \/ body[i] = "_" /\ body[i - 1] \in Digits /\ body[i + 1] \in Digits

\* int(s) of a string IntOk accepts.
IntOf(s) ==
    LET n == int(SelectSeq(Unsigned(s), LAMBDA ch : ch # "_"))
    IN  IF strip(s)[1] = "-" THEN 0 - n ELSE n

\* Lines 138-146: start, end = date_id.split(":"), each int(...) or None
\* when empty (<<>> for None, <<n>> for the number n); ok is false when the
\* unpacking or an int() raises.
SliceObj(d) ==
    LET parts == split(d, ":")
        bound(t) == IF t = <<>> THEN <<>> ELSE <<IntOf(t)>>
    IN  IF Len(parts) = 2 /\ \A i \in 1..2 : parts[i] = <<>> \/ IntOk(parts[i])
        THEN [ok |-> TRUE, start |-> bound(parts[1]), end |-> bound(parts[2])]
        ELSE [ok |-> FALSE, start |-> <<>>, end |-> <<>>]

Max(a, b) == IF a > b THEN a ELSE b

\* s[slice(start, end)] of a string.
Slice(str, start, end) ==
    LET n == Len(str)
        at(b, none) == IF b = <<>> THEN none
                       ELSE IF b[1] < 0 THEN Max(n + b[1], 0) ELSE Min(b[1], n)
    IN  SubSeq(str, at(start, 0) + 1, at(end, n))

\* Line 113 (zonal), line 129 (area): raster_name.split("_")[-1]
SuffixKey(raster_name) ==
    LET parts == split(raster_name, "_") IN parts[Len(parts)]

\* Line 151: raster_name.split("_")[-2] raises IndexError when the name has
\* no underscore.
HasDatePart(raster_name) == Len(split(raster_name, "_")) >= 2

\* Lines 151-152: the slice of the second-to-last part of the name.
DateKey(raster_name, d) ==
    LET parts == split(raster_name, "_")
    IN  Slice(parts[Len(parts) - 1], SliceObj(d).start, SliceObj(d).end)

\* The globbing and, in the monthly algorithm, the parsing of DATE_ID.
KeyStart ==
    /\ alg \in KeyAlgs /\ pc = "start"
    /\ LET raster_files == IF alg = "zonal" THEN Glob(listing) ELSE sorted(Glob(listing))
       IN  /\ messages' = Append(messages, pushInfo("Found", Len(raster_files)))
           /\ IF alg = "monthly_zonal" /\ ~SliceObj(date_id).ok
              THEN /\ pc' = "failed"
                   /\ report' = "Invalid date identifier"
                   /\ todo' = todo
              ELSE /\ pc' = IF raster_files = <<>> THEN "save" ELSE "files"
                   /\ report' = report
                   /\ todo' = raster_files
    /\ UNCHANGED events
    /\ UNCHANGED <<prepVars, plugVars, params, outputs, user_pixel_area, out_of_range>>
    /\ UNCHANGED <<load_maps, threshold, date_id, fields, out_ds, layers>>
    /\ UNCHANGED <<alg, listing, dtype_idx, seasons, all_rasters, rasters_by_month,
                   rasters, season_raster_map, final_files, cols, rows, y, x,
                   block_sum, out_px, writes, opened, progress, results, skipped,
                   canceled, cancelAt>>

\* QgsRasterLayer(raster_path, "raster_tmp").isValid()
IsValidRaster(fname) ==
    \E i \in 1..Len(listing) : listing[i].name = fname /\ listing[i].valid

\* One raster of the loop: its field key, which the toolbox calls use as
\* column prefix; then, in the two algorithms that compute areas, the pixel
\* area, which is read from the raster when PIXEL_AREA is not given: a
\* raster that does not load ends the run with an exception.
KeyFile ==
    /\ alg \in KeyAlgs /\ pc = "files"
    /\ LET raster_name == splitext(Head(todo))
       IN  IF alg = "monthly_zonal" /\ ~HasDatePart(raster_name)
           THEN /\ pc' = "failed"
                /\ report' = "error"
                /\ UNCHANGED <<todo, fields, messages>>
           ELSE /\ fields' = Append(fields,
                        [raster |-> Head(todo),
                         suffix |-> IF alg = "monthly_zonal"
                                    THEN DateKey(raster_name, date_id)
                                    ELSE SuffixKey(raster_name)])
                /\ messages' = Append(messages, pushInfo("Processing", raster_name))
                /\ IF alg # "zonal" /\ user_pixel_area = 0 /\ ~IsValidRaster(Head(todo))
                   THEN /\ pc' = "failed"
                        /\ report' = "error"
                        /\ todo' = todo
                   ELSE /\ todo' = Tail(todo)
                        /\ pc' = IF Tail(todo) = <<>> THEN "save" ELSE "files"
                        /\ report' = report
    /\ UNCHANGED events
    /\ UNCHANGED <<prepVars, plugVars, params, outputs, user_pixel_area, out_of_range>>
    /\ UNCHANGED <<load_maps, threshold, date_id, out_ds, layers>>
    /\ UNCHANGED <<alg, listing, dtype_idx, seasons, all_rasters, rasters_by_month,
                   rasters, season_raster_map, final_files, cols, rows, y, x,
                   block_sum, out_px, writes, opened, progress, results, skipped,
                   canceled, cancelAt>>

\* native:savefeatures writes the result layer, which is added to the
\* project when QgsVectorLayer(output_vector).isValid().
KeyFinish ==
    /\ alg \in KeyAlgs /\ pc = "save"
    /\ \E isValid \in BOOLEAN :
          layers' = IF isValid THEN Append(layers, "output") ELSE layers
    /\ pc' = "done"
    /\ report' = "completed"
    /\ UNCHANGED events
    /\ UNCHANGED <<prepVars, plugVars, params, outputs, user_pixel_area, out_of_range>>
    /\ UNCHANGED <<load_maps, threshold, date_id, fields, out_ds, messages>>
    /\ UNCHANGED <<alg, listing, dtype_idx, seasons, all_rasters, rasters_by_month,
                   rasters, season_raster_map, todo, final_files, cols, rows, y, x,
                   block_sum, out_px, writes, opened, progress, results, skipped,
                   canceled, cancelAt>>

InitKeys ==
    /\ alg \in KeyAlgs
    /\ listing \in Listings(KeyFiles, MaxFiles)
    /\ date_id \in IF alg = "monthly_zonal" THEN DateIds ELSE {None}
    /\ user_pixel_area \in IF alg = "zonal" THEN {0} ELSE PixelAreas
    /\ out_of_range = "wraps"
    /\ threshold = None
    /\ dtype_idx = 0
    /\ load_maps = TRUE
    /\ seasons = <<>>
    /\ NoPrepInputs
    /\ params = None
    /\ InitCommon

(***************************************************************************)
(* MergeMaskReprojectAlgorithm.processAlgorithm (merge_mask_reproject.py,  *)
(* "preprocess").  gdal:merge, gdal:cliprasterbymasklayer and              *)
(* gdal:warpreproject are calls into the processing toolbox; their         *)
(* temporary outputs are named after what they were made from.             *)
(***************************************************************************)
\* The files of the input folders: name and projection.  The digit of the
\* file flood_2.tif is the Arabic-Indic two U+0662.
PrepFiles ==
    {
       [root |-> "in", name |-> <<"f", "l", "o", "o", "d", "_", "1", ".", "t", "i", "f">>, proj |-> "EPSG:4326"],
       [root |-> "in", name |-> <<"f", "l", "o", "o", "d", "_", "1", "b", ".", "t", "i", "f">>, proj |-> "EPSG:4326"],
       [root |-> "in/sub", name |-> <<"f", "l", "o", "o", "d", "_", "1", ".", "t", "i", "f">>, proj |-> "EPSG:4326"],
       [root |-> "in", name |-> <<"f", "l", "o", "o", "d", "_", "U+0662", ".", "t", "i", "f">>, proj |-> "EPSG:4326"],
       [root |-> "in", name |-> <<"b", ".", "t", "i", "f">>, proj |-> ""],
       [root |-> "in", name |-> <<".", ".", "t", "i", "f">>, proj |-> "EPSG:4326"],
       [root |-> "in", name |-> <<"n", "o", "t", "e", "s", ".", "t", "x", "t">>, proj |-> ""]
    }

\* MERGE_RASTERS with MERGE_PATTERN as stripped: no merging (the default
\* pattern), merging without a pattern, with the default pattern "( )" and
\* with the pattern (flood_\d+) of the help text.
MergeOptions ==
    {<<FALSE, "( )">>, <<TRUE, "">>, <<TRUE, "( )">>, <<TRUE, "(flood_\\d+)">>}

\* TARGET_CRS: not given (not valid), or a CRS.
TargetCrss == {[valid |-> FALSE, wkt |-> ""], [valid |-> TRUE, wkt |-> "EPSG:3857"]}

\* pattern.match(fname).group(1) for the patterns of the runs, None when
\* fname does not match: "( )" matches a name that begins with a blank,
\* "(flood_\d+)" a name that begins with flood_ and a digit, up to the last
\* digit of that run of digits.
Match(pattern, fname) ==
    IF pattern = "( )"
    THEN (IF fname # <<>> /\ fname[1] = " " THEN <<" ">> ELSE None)
    ELSE IF /\ Len(fname) >= 7
            /\ SubSeq(fname, 1, 6) = <<"f", "l", "o", "o", "d", "_">>
            /\ fname[7] \in Digits
         THEN LET n == CHOOSE k \in 7..Len(fname) :
                          /\ \A j \in 7..k : fname[j] \in Digits
                          /\ k = Len(fname) \/ fname[k + 1] \notin Digits
              IN  SubSeq(fname, 1, n)
         ELSE None

\* grouped_files[(base_name, folder)].append(fpath), the dict as the list of
\* its items in insertion order.
GroupAppend(g, base_name, folder, fpath) ==
    IF \E i \in 1..Len(g) : g[i].base_name = base_name /\ g[i].folder = folder
    THEN [i \in 1..Len(g) |->
            IF g[i].base_name = base_name /\ g[i].folder = folder
            THEN [g[i] EXCEPT !.files = Append(@, fpath)] ELSE g[i]]
    ELSE Append(g, [base_name |-> base_name, folder |-> folder, files |-> <<fpath>>])

\* Lines 148-154: the groups of the files fs, from g.
RECURSIVE GroupFiles(_, _, _)
GroupFiles(pattern, fs, g) ==
    IF fs = <<>> THEN g
    ELSE LET fpath == Head(fs)
             base_name == Match(pattern, fpath[2])
         IN  GroupFiles(pattern, Tail(fs),
                        IF base_name # None
                        THEN GroupAppend(g, base_name, fpath[1], fpath) ELSE g)

\* os.path.relpath(folder, input_folder)
relpath(folder) == IF folder = "in" THEN "." ELSE "sub"

\* The temporary output of gdal:merge for files, of
\* gdal:cliprasterbymasklayer for fpath.
MergedPath(files) == <<"merged", files>>

MaskedPath(fpath) == <<"masked", fpath>>

\* An entry (path, base_name, relative_subfolder).
Entry(path, base_name, relative_subfolder) ==
    [path |-> path, base_name |-> base_name, relative_subfolder |-> relative_subfolder]

\* Lines 181-185: every file on its own.
RECURSIVE Individually(_)
Individually(fs) ==
    IF fs = <<>> THEN <<>>
    ELSE <<Entry(Head(fs), splitext(Head(fs)[2]), relpath(Head(fs)[1]))>>
         \o Individually(Tail(fs))

\* ds.GetProjection() of the raster at path: a clipped raster has the
\* projection of its input, a merged one that of its inputs.
RECURSIVE GetProjection(_)
GetProjection(path) ==
    IF path[1] = "masked" THEN GetProjection(path[2])
    ELSE IF path[1] = "merged" THEN GetProjection(path[2][1])
    ELSE Open(path).proj

\* Lines 133-156, 180-185: list the .tif files; when merging, group them
\* and say how many groups there are, otherwise take every file on its own.
PrepStart ==
    /\ alg = "preprocess" /\ pc = "start"
    /\ LET all_files == GatherTifs(listing)
           groups == GroupFiles(merge_pattern, all_files, <<>>)
       IN  IF merge_rasters /\ merge_pattern = ""
           THEN /\ pc' = "failed"
                /\ report' = "Please provide a regex pattern"
                /\ UNCHANGED <<grouped_files, files_to_process, messages>>
           ELSE IF merge_rasters
           THEN /\ pc' = IF groups = <<>> THEN "mask" ELSE "merge"
                /\ report' = report
                /\ grouped_files' = groups
                /\ files_to_process' = files_to_process
                /\ messages' = Append(messages, pushInfo("Found groups", Len(groups)))
           ELSE /\ pc' = "mask"
                /\ report' = report
                /\ grouped_files' = grouped_files
                /\ files_to_process' = Individually(all_files)
                /\ messages' = messages
    /\ UNCHANGED <<merge_rasters, merge_pattern, target_crs, masked_files, warped,
                   in_call>>
    /\ UNCHANGED <<alg, listing, canceled, cancelAt, aggVars, plugVars>>

\* Lines 158-166: the next group of the loop over the groups.  A group of
\* one file is carried forward as it is; a larger one is handed to
\* gdal:merge.
PrepGroup ==
    /\ alg = "preprocess" /\ pc = "merge" /\ in_call = ""
    /\ LET grp == grouped_files[Len(files_to_process) + 1]
       IN  IF Len(grp.files) < 2
           THEN /\ files_to_process' = Append(files_to_process,
                        Entry(grp.files[1], grp.base_name, relpath(grp.folder)))
                /\ pc' = IF Len(files_to_process) + 1 = Len(grouped_files)
                         THEN "mask" ELSE "merge"
                /\ in_call' = in_call
           ELSE /\ in_call' = "gdal:merge"
                /\ UNCHANGED <<files_to_process, pc>>
    /\ UNCHANGED <<merge_rasters, merge_pattern, target_crs, grouped_files,
                   masked_files, warped>>
    /\ UNCHANGED <<alg, listing, canceled, cancelAt, report, messages, aggVars,
                   plugVars>>

\* Lines 166-178: gdal:merge returns; the merged raster is carried forward
\* and that is said.
PrepMerge ==
    /\ alg = "preprocess" /\ pc = "merge" /\ in_call = "gdal:merge"
    /\ LET grp == grouped_files[Len(files_to_process) + 1]
       IN  /\ files_to_process' = Append(files_to_process,
                    Entry(MergedPath(grp.files), grp.base_name, relpath(grp.folder)))
           /\ messages' = Append(messages, pushInfo("Merged", grp.base_name))
    /\ pc' = IF Len(files_to_process) + 1 = Len(grouped_files) THEN "mask" ELSE "merge"
    /\ in_call' = ""
    /\ UNCHANGED <<merge_rasters, merge_pattern, target_crs, grouped_files,
                   masked_files, warped>>
    /\ UNCHANGED <<alg, listing, canceled, cancelAt, report, aggVars, plugVars>>

\* Lines 188-192: the poll of the flag before a file of the masking loop;
\* the file is handed to gdal:cliprasterbymasklayer when it is not set.
PrepMaskPoll ==
    /\ alg = "preprocess" /\ pc = "mask" /\ in_call = ""
    /\ Len(masked_files) < Len(files_to_process)
    /\ ~canceled
    /\ in_call' = "gdal:cliprasterbymasklayer"
    /\ UNCHANGED <<merge_rasters, merge_pattern, target_crs, grouped_files,
                   files_to_process,
                   masked_files, warped>>
    /\ UNCHANGED <<alg, pc, listing, canceled, cancelAt, report, messages, aggVars,
                   plugVars>>

\* Lines 192-214: the clip returns; its output is kept and said.
PrepMask ==
    /\ alg = "preprocess" /\ pc = "mask" /\ in_call = "gdal:cliprasterbymasklayer"
    /\ LET e == files_to_process[Len(masked_files) + 1]
       IN  /\ masked_files' = Append(masked_files,
                                     Entry(MaskedPath(e.path), e.base_name, e.relative_subfolder))
           /\ messages' = Append(messages, pushInfo("Masked", e.base_name))
    /\ in_call' = ""
    /\ UNCHANGED <<merge_rasters, merge_pattern, target_crs, grouped_files,
                   files_to_process, warped>>
    /\ UNCHANGED <<alg, pc, listing, canceled, cancelAt, report, aggVars, plugVars>>

\* Lines 189-191: the masking loop ends, at its end or by the break.
PrepMaskEnd ==
    /\ alg = "preprocess" /\ pc = "mask" /\ in_call = ""
    /\ Len(masked_files) = Len(files_to_process) \/ canceled
    /\ pc' = "reproject"
    /\ UNCHANGED <<alg, listing, canceled, cancelAt, report, messages, prepVars,
                   aggVars, plugVars>>

\* wkt_crs of lines 222-229 for the masked entry e.
wkt_crs(e) == IF target_crs.valid THEN target_crs.wkt ELSE GetProjection(e.path)

\* The start of a file of the reprojection loop, without the poll of the
\* flag.
PrepReprojectNoPoll ==
    /\ alg = "preprocess" /\ pc = "reproject" /\ in_call = ""
    /\ Len(warped) < Len(masked_files)
    /\ pc' = "crs"
    /\ UNCHANGED <<alg, listing, canceled, cancelAt, report, messages, prepVars,
                   aggVars, plugVars>>

\* Lines 217-219: the poll of the flag before a file of the reprojection
\* loop; the body of the loop is entered when it is not set.
PrepReprojectPoll ==
    /\ alg = "preprocess" /\ pc = "reproject" /\ in_call = ""
    /\ Len(warped) < Len(masked_files)
    /\ ~canceled
    /\ pc' = "crs"
    /\ UNCHANGED <<alg, listing, canceled, cancelAt, report, messages, prepVars,
                   aggVars, plugVars>>

\* Lines 221-229: the target CRS is determined: TARGET_CRS when it is
\* valid, otherwise the projection of the masked raster (gdal.Open,
\* GetProjection), with a warning when the raster has none.
PrepReprojectCrs ==
    /\ alg = "preprocess" /\ pc = "crs"
    /\ LET e == masked_files[Len(warped) + 1]
       IN  messages' = messages
               \o (IF wkt_crs(e) = "" THEN <<pushWarning("No CRS", e.base_name)>> ELSE <<>>)
    /\ pc' = "warp"
    /\ UNCHANGED <<alg, listing, canceled, cancelAt, report, prepVars, aggVars,
                   plugVars>>

\* Lines 231-239: the subfolder of the output is made (os.makedirs) and the
\* file is handed to gdal:warpreproject.
PrepReprojectRun ==
    /\ alg = "preprocess" /\ pc = "warp"
    /\ in_call' = "gdal:warpreproject"
    /\ pc' = "reproject"
    /\ UNCHANGED <<merge_rasters, merge_pattern, target_crs, grouped_files,
                   files_to_process,
                   masked_files, warped>>
    /\ UNCHANGED <<alg, listing, canceled, cancelAt, report, messages, aggVars,
                   plugVars>>

\* Lines 239-254: the reprojection returns; the file is written to its final
\* path <output_folder>/<relative_subfolder>/<prefix><base_name>.tif and
\* that is said.
PrepReproject ==
    /\ alg = "preprocess" /\ pc = "reproject" /\ in_call = "gdal:warpreproject"
    /\ LET e == masked_files[Len(warped) + 1]
       IN  /\ warped' = Append(warped,
                               [input |-> e.path, target_crs |-> wkt_crs(e),
                                output |-> <<e.relative_subfolder, e.base_name>>])
           /\ messages' = Append(messages,
                                 pushInfo("Reprojected", <<e.relative_subfolder, e.base_name>>))
    /\ in_call' = ""
    /\ UNCHANGED <<merge_rasters, merge_pattern, target_crs, grouped_files,
                   files_to_process, masked_files>>
    /\ UNCHANGED <<alg, pc, listing, canceled, cancelAt, report, aggVars, plugVars>>

\* Lines 217-219, 256: the reprojection loop ends, at its end or by the
\* break, and the run returns.
PrepFinish ==
    /\ alg = "preprocess" /\ pc = "reproject" /\ in_call = ""
    /\ Len(warped) = Len(masked_files) \/ canceled
    /\ pc' = "done"
    /\ report' = "completed"
    /\ UNCHANGED <<alg, listing, canceled, cancelAt, messages, prepVars, aggVars,
                   plugVars>>

\* The values of the variables a run that is no aggregation, conversion or
\* zonal run never uses.
NoAggInputs ==
    /\ dtype_idx = 0
    /\ load_maps = FALSE
    /\ threshold = None
    /\ date_id = None
    /\ seasons = <<>>
    /\ user_pixel_area = 0
    /\ out_of_range = "wraps"

InitPrep ==
    /\ alg = "preprocess"
    /\ listing \in Listings(PrepFiles, MaxFiles)
    /\ \E o \in MergeOptions : merge_rasters = o[1] /\ merge_pattern = o[2]
    /\ target_crs \in TargetCrss
    /\ NoAggInputs
    /\ params = None
    /\ InitCommon

(***************************************************************************)
(* The runs that only call into the processing toolbox:                    *)
(* ExposureAnalysisAlgorithm (exposure_analysis.py, "exposure"),           *)
(* PointSamplingCountAlgorithm (exposure_sampling_count.py, "sampling"),   *)
(* CalculateIndexAlgorithm (index_calculation.py, "index") and             *)
(* RiskAssessmentAlgorithm (risk_assessment.py, "risk").  None of them     *)
(* polls feedback.isCanceled().  What the toolbox calls compute (rasters,  *)
(* layers, the columns of the data frame) is left to the toolbox; the      *)
(* model keeps what is said, which call is under way, the outputs kept and *)
(* the layers added to the project.                                        *)
(***************************************************************************)
\* The variables no step of these runs changes.
fixedVars == <<alg, listing, canceled, cancelAt, dtype_idx, seasons, all_rasters,
               rasters_by_month, rasters, season_raster_map, final_files, cols,
               rows, y, x, block_sum, out_px, writes, opened, progress, results,
               skipped, load_maps, threshold, date_id, out_ds, user_pixel_area,
               out_of_range, events, params, merge_rasters, merge_pattern,
               target_crs, grouped_files, files_to_process, masked_files, warped,
               plugVars>>

\* feedback.reportError: what is said, about what.
reportError(kind, about) == [level |-> "error", kind |-> kind, about |-> about]

\* The files of the binary folder of an exposure run and of the raster
\* folder of a sampling run: a name with a year, one with an upper-case
\* extension, one with eight digits (of which the last four are the year of
\* the first name), one with a single digit, and a file that is no raster.
YearFiles ==
    {
       [root |-> "rasters", name |-> <<"f", "l", "o", "o", "d", "_", "2", "0", "2", "1", ".", "t", "i", "f">>],
       [root |-> "rasters", name |-> <<"f", "l", "o", "o", "d", "_", "2", "0", "2", "2", ".", "T", "I", "F">>],
       [root |-> "rasters", name |-> <<"b", "_", "2", "0", "2", "2", "2", "0", "2", "1", ".", "t", "i", "f">>],
       [root |-> "rasters", name |-> <<"a", "1", "_", "x", ".", "t", "i", "f">>],
       [root |-> "rasters", name |-> <<"n", "o", "t", "e", "s", ".", "t", "x", "t">>]
    }

\* Lines 115-116 of exposure_analysis.py: the name of the output for
\* filename, "<prefix>exposure_<year>.tif" in the output folder, where year
\* is the last four of the digits of filename (all of them when there are
\* fewer; of the characters of the names here str.isdigit holds of the
\* decimal digits).
output_path(filename) ==
    LET digits == SelectSeq(filename, LAMBDA ch : ch \in Digits)
        year == SubSeq(digits, Max(1, Len(digits) - 3), Len(digits))
    IN  <<params.prefix, "exposure_", year, ".tif">>

\* Lines 96-108: the output folder is made and the binary folder listed.
ExpStart ==
    /\ alg = "exposure" /\ pc = "start"
    /\ todo' = [i \in 1..Len(listing) |-> listing[i].name]
    /\ pc' = "files"
    /\ UNCHANGED <<messages, in_call, layers, outputs, fields, report>>
    /\ UNCHANGED fixedVars

\* Lines 108-118: the next file of the listing; a file that is no .tif is
\* passed over, for any other the output path is made and said.
ExpFile ==
    /\ alg = "exposure" /\ pc = "files" /\ todo # <<>>
    /\ IF IsTif(Head(todo))
       THEN /\ messages' = Append(messages,
                    pushInfo("Processing", <<Head(todo), output_path(Head(todo))>>))
            /\ pc' = "calc"
            /\ todo' = todo
       ELSE /\ todo' = Tail(todo)
            /\ UNCHANGED <<messages, pc>>
    /\ UNCHANGED <<in_call, layers, outputs, fields, report>>
    /\ UNCHANGED fixedVars

\* Lines 120-146: the two toolbox calls for the file: native:rastercalc is
\* entered; it returns and gdal:translate is entered with its output; that
\* returns and the output path is appended to the list results.
ExpRun ==
    /\ alg = "exposure" /\ pc = "calc"
    /\ \/ /\ in_call = ""
          /\ in_call' = "native:rastercalc"
          /\ UNCHANGED <<outputs, pc>>
       \/ /\ in_call = "native:rastercalc"
          /\ in_call' = "gdal:translate"
          /\ UNCHANGED <<outputs, pc>>
       \/ /\ in_call = "gdal:translate"
          /\ in_call' = ""
          /\ outputs' = Append(outputs, output_path(Head(todo)))
          /\ pc' = "saved"
    /\ UNCHANGED <<todo, messages, layers, fields, report>>
    /\ UNCHANGED fixedVars

\* Lines 148-151: with LOAD_RESULT a QgsRasterLayer is made of the output
\* and, when it is valid, added to the project; then the next file.
ExpLoad ==
    /\ alg = "exposure" /\ pc = "saved"
    /\ \E isValid \in BOOLEAN :
          /\ ~load_maps => isValid
          /\ layers' = IF load_maps /\ isValid
                       THEN Append(layers, output_path(Head(todo))) ELSE layers
    /\ todo' = Tail(todo)
    /\ pc' = "files"
    /\ UNCHANGED <<messages, in_call, outputs, fields, report>>
    /\ UNCHANGED fixedVars

\* Lines 153-154: the number of rasters saved is said and the run returns.
ExpFinish ==
    /\ alg = "exposure" /\ pc = "files" /\ todo = <<>>
    /\ messages' = Append(messages, pushInfo("Completed", Len(outputs)))
    /\ pc' = "done"
    /\ report' = "completed"
    /\ UNCHANGED <<todo, in_call, layers, outputs, fields>>
    /\ UNCHANGED fixedVars

\* The values of the variables only the aggregation, conversion, zonal and
\* preprocessing runs use.
NoRasterInputs ==
    /\ dtype_idx = 0
    /\ threshold = None
    /\ date_id = None
    /\ seasons = <<>>
    /\ user_pixel_area = 0
    /\ out_of_range = "wraps"
    /\ NoPrepInputs

\* PREFIX and LOAD_RESULT of the exposure runs: the defaults ("_", loading)
\* and a prefix "p_" with and without loading.
InitExposure ==
    /\ alg = "exposure"
    /\ listing \in Listings(YearFiles, MaxFiles)
    /\ \E o \in {<<"_", TRUE>>, <<"p_", TRUE>>, <<"p_", FALSE>>} :
          params = [prefix |-> o[1]] /\ load_maps = o[2]
    /\ NoRasterInputs
    /\ InitCommon

\* Lines 114-117 of exposure_sampling_count.py: the column prefix for the
\* raster raster_name, "<prefix><suffix>_", where suffix is the first run of
\* four decimal digits of the name (re.search(r'(\d{4})')) and, when it has
\* none, what follows its last underscore.
field_prefix(raster_name) ==
    LET found == {k \in 1..(Len(raster_name) - 3) :
                      \A j \in k..(k + 3) : raster_name[j] \in Digits}
        at == CHOOSE k \in found : \A m \in found : k <= m
        parts == split(raster_name, "_")
    IN  <<params.prefix,
          IF found # {} THEN SubSeq(raster_name, at, at + 3) ELSE parts[Len(parts)],
          "_">>

\* Lines 95-110: the rasters of the folder, the names that end in ".tif" in
\* sorted order; their number is said and the memory layer of the centroids
\* made.
SampStart ==
    /\ alg = "sampling" /\ pc = "start"
    /\ LET names == [i \in 1..Len(listing) |-> listing[i].name]
           raster_files == sorted(SelectSeq(names, LAMBDA f :
                               /\ Len(f) >= 4
                               /\ SubSeq(f, Len(f) - 3, Len(f)) = <<".", "t", "i", "f">>))
       IN  /\ todo' = raster_files
           /\ messages' = Append(messages, pushInfo("Found rasters", Len(raster_files)))
    /\ pc' = "files"
    /\ UNCHANGED <<in_call, layers, outputs, fields, report>>
    /\ UNCHANGED fixedVars

\* Lines 113-119: the next raster: its column prefix is made and its place
\* in the list and its name are said.
SampFile ==
    /\ alg = "sampling" /\ pc = "files" /\ todo # <<>>
    /\ LET raster_name == splitext(Head(todo))
       IN  /\ fields' = Append(fields, [raster |-> Head(todo),
                                        suffix |-> field_prefix(raster_name)])
           /\ messages' = Append(messages,
                   pushInfo("Sampling", <<Len(fields) + 1, Len(fields) + Len(todo),
                                          raster_name>>))
    /\ pc' = "sample"
    /\ UNCHANGED <<todo, in_call, layers, outputs, report>>
    /\ UNCHANGED fixedVars

\* Lines 121-144: the toolbox calls of the run: native:rastersampling for a
\* raster is entered and returns (its output is the cumulative layer of the
\* next raster); after the last raster native:joinbylocationsummary is
\* entered and returns.
SampRun ==
    /\ alg = "sampling"
    /\ \/ /\ pc = "sample" /\ in_call = ""
          /\ in_call' = "native:rastersampling"
          /\ UNCHANGED <<todo, pc>>
       \/ /\ pc = "sample" /\ in_call = "native:rastersampling"
          /\ in_call' = ""
          /\ todo' = Tail(todo)
          /\ pc' = "files"
       \/ /\ pc = "files" /\ todo = <<>>
          /\ in_call' = "native:joinbylocationsummary"
          /\ pc' = "join"
          /\ todo' = todo
       \/ /\ pc = "join" /\ in_call = "native:joinbylocationsummary"
          /\ in_call' = ""
          /\ pc' = "joined"
          /\ todo' = todo
    /\ UNCHANGED <<messages, layers, outputs, fields, report>>
    /\ UNCHANGED fixedVars

\* Lines 146-149: a QgsVectorLayer is made of the output of the join and,
\* when it is valid, added to the project; the run returns when it is not.
SampLoad ==
    /\ alg = "sampling" /\ pc = "joined"
    /\ \E isValid \in BOOLEAN :
          IF isValid
          THEN /\ layers' = Append(layers, "Exposure Zonal Stats")
               /\ pc' = "loaded"
               /\ report' = report
          ELSE /\ layers' = layers
               /\ pc' = "done"
               /\ report' = "completed"
    /\ UNCHANGED <<todo, messages, in_call, outputs, fields>>
    /\ UNCHANGED fixedVars

\* Lines 150-152: the layer added is said and the run returns.
SampFinish ==
    /\ alg = "sampling" /\ pc = "loaded"
    /\ messages' = Append(messages, pushInfo("Final layer created", "output"))
    /\ pc' = "done"
    /\ report' = "completed"
    /\ UNCHANGED <<todo, in_call, layers, outputs, fields>>
    /\ UNCHANGED fixedVars

\* PREFIX of the sampling runs: the default.
InitSampling ==
    /\ alg = "sampling"
    /\ listing \in Listings(YearFiles, MaxFiles)
    /\ params = [prefix |-> "pts_"]
    /\ load_maps = FALSE
    /\ NoRasterInputs
    /\ InitCommon

\* The inputs of the index runs: JOIN_FIELD, the columns of the input CSV
\* and the indicator column of the weights CSV, in the order of its rows (a
\* weights CSV has the columns indicator and weight, and the indicator
\* columns of the input CSV hold numbers).  A name is the tuple of its
\* pieces: <<"a">> is the column a, <<"std_", "b">> the column std_b.
IndexInputs ==
    {[join_field |-> j, columns |-> c, indicators |-> w] :
        j \in {<<"id">>, <<"WI">>},
        c \in {{<<"id">>, <<"a">>, <<"b">>}, {<<"a">>, <<"std_", "b">>}},
        w \in {<<>>, <<<<"a">>>>, <<<<"a">>, <<"b">>, <<"a">>>>, <<<<"c">>, <<"b">>>>}}

\* Lines 96-100: both CSV files are read; the weights are a dict keyed by
\* indicator, so an indicator named again keeps its first place; their
\* number is said.
IdxStart ==
    /\ alg = "index" /\ pc = "start"
    /\ LET ind == params.indicators
           firsts == SelectSeq([i \in 1..Len(ind) |-> i],
                               LAMBDA i : \A j \in 1..(i - 1) : ind[j] # ind[i])
           indicators == [k \in 1..Len(firsts) |-> ind[firsts[k]]]
       IN  /\ todo' = indicators
           /\ messages' = Append(messages, pushInfo("Loaded weights", Len(indicators)))
    /\ pc' = "standardize"
    /\ UNCHANGED <<in_call, layers, outputs, fields, report>>
    /\ UNCHANGED fixedVars

\* Lines 103-111: the next indicator of the standardization loop: a column
\* of the input CSV is standardized, of any other indicator an error is
\* said.
IdxStandardize ==
    /\ alg = "index" /\ pc = "standardize" /\ todo # <<>>
    /\ messages' = IF Head(todo) \in params.columns THEN messages
                   ELSE Append(messages, reportError("Not found", Head(todo)))
    /\ todo' = Tail(todo)
    /\ UNCHANGED <<pc, in_call, layers, outputs, fields, report>>
    /\ UNCHANGED fixedVars

\* Lines 113-135: the weighted columns, WI and FWI are computed, the join
\* column is made a string, which raises when the data frame has no such
\* column, and the data frame is written to <output>_FWI.csv.
IdxSave ==
    /\ alg = "index" /\ pc = "standardize" /\ todo = <<>>
    /\ LET keys == {params.indicators[i] : i \in 1..Len(params.indicators)}
           with_std == params.columns
                          \cup {<<"std_">> \o k : k \in keys \cap params.columns}
           df_columns == with_std
                          \cup {<<"wei_">> \o k : k \in {i \in keys : <<"std_">> \o i \in with_std}}
                          \cup {<<"WI">>, <<"FWI">>}
       IN  IF params.join_field \in df_columns
           THEN /\ outputs' = Append(outputs, "FWI.csv")
                /\ pc' = "saved"
                /\ report' = report
           ELSE /\ pc' = "failed"
                /\ report' = "error"
                /\ outputs' = outputs
    /\ UNCHANGED <<todo, messages, in_call, layers, fields>>
    /\ UNCHANGED fixedVars

\* Lines 136, 156, 174-175: what the run says: that the CSV is saved, that
\* the join begins, and that the output is saved, after which it returns.
IdxSay ==
    /\ alg = "index" /\ in_call = ""
    /\ \/ /\ pc = "saved"
          /\ messages' = Append(messages, pushInfo("FWI CSV saved", "FWI.csv"))
          /\ pc' = "refactor"
          /\ report' = report
       \/ /\ pc = "refactored"
          /\ messages' = Append(messages, pushInfo("Joining", "FWI.csv"))
          /\ pc' = "join"
          /\ report' = report
       \/ /\ pc = "joined"
          /\ messages' = Append(messages, pushInfo("Output saved", "output"))
          /\ pc' = "done"
          /\ report' = "completed"
    /\ UNCHANGED <<todo, in_call, layers, outputs, fields>>
    /\ UNCHANGED fixedVars

\* Lines 139-153, 157-172: the toolbox calls of the run:
\* native:refactorfields is entered and returns a copy of the layer;
\* native:joinattributestable is entered and returns the output.
IdxRun ==
    /\ alg = "index"
    /\ \/ /\ pc = "refactor" /\ in_call = ""
          /\ in_call' = "native:refactorfields"
          /\ UNCHANGED <<pc, outputs>>
       \/ /\ pc = "refactor" /\ in_call = "native:refactorfields"
          /\ in_call' = ""
          /\ pc' = "refactored"
          /\ outputs' = outputs
       \/ /\ pc = "join" /\ in_call = ""
          /\ in_call' = "native:joinattributestable"
          /\ UNCHANGED <<pc, outputs>>
       \/ /\ pc = "join" /\ in_call = "native:joinattributestable"
          /\ in_call' = ""
          /\ pc' = "joined"
          /\ outputs' = Append(outputs, "output")
    /\ UNCHANGED <<todo, messages, layers, fields, report>>
    /\ UNCHANGED fixedVars

InitIndex ==
    /\ alg = "index"
    /\ listing = <<>>
    /\ params \in IndexInputs
    /\ load_maps = FALSE
    /\ NoRasterInputs
    /\ InitCommon

\* The inputs of the risk runs: JOIN_FIELD and, for the hazard, the
\* vulnerability, the exposure and the adaptive capacity, whether the layer
\* is given and the field chosen (a string is the tuple of its one piece,
\* <<"">> when no field is chosen, so that no string is None).
RiskInputs ==
    {[join_field |-> <<"id">>,
      layers |-> <<[alias |-> "FHI", given |-> h[1], field |-> h[2]],
                   [alias |-> "FVI", given |-> v[1], field |-> v[2]],
                   [alias |-> "FEI", given |-> TRUE, field |-> e],
                   [alias |-> "AC", given |-> FALSE, field |-> a]>>] :
        h \in {<<TRUE, <<"FHI">>>>, <<TRUE, <<"id">>>>, <<FALSE, <<"">>>>},
        v \in {<<TRUE, <<"FVI">>>>, <<TRUE, <<"">>>>},
        e \in {<<"FEI">>, <<"id">>},
        a \in {<<"">>, <<"AC">>}}

\* Lines 149-155: filter_field(layer, field_name) for the entry l: None
\* without a layer or a field and for the join field, the field otherwise.
filter_field(l) ==
    IF ~l.given \/ l.field = <<"">> \/ l.field = params.join_field THEN None ELSE l.field

\* Lines 137-168: the parameters are read and filter_field is called for the
\* next of the four layers; a field that is the join field is said to be
\* skipped.  After the fourth the list of the layers to join is made.
RiskFilter ==
    /\ alg = "risk" /\ pc = "start"
    /\ LET l == params.layers[Len(fields) + 1]
       IN  /\ fields' = Append(fields, filter_field(l))
           /\ messages' = IF l.given /\ l.field # <<"">> /\ l.field = params.join_field
                          THEN Append(messages, pushInfo("Join key", l.field))
                          ELSE messages
    /\ IF Len(fields) + 1 = Len(params.layers)
       THEN /\ pc' = "join"
            /\ todo' = [i \in 1..Len(params.layers) |->
                          [alias |-> params.layers[i].alias,
                           given |-> params.layers[i].given,
                           field_name |-> fields'[i]]]
       ELSE UNCHANGED <<pc, todo>>
    /\ UNCHANGED <<in_call, layers, outputs, report>>
    /\ UNCHANGED fixedVars

\* Lines 172-176: the next of the layers to join: one without a layer or a
\* field is said to be skipped, of any other the join is said.
RiskJoin ==
    /\ alg = "risk" /\ pc = "join" /\ todo # <<>>
    /\ IF ~Head(todo).given \/ Head(todo).field_name = None
       THEN /\ messages' = Append(messages, pushInfo("Skipping", Head(todo).alias))
            /\ todo' = Tail(todo)
            /\ pc' = pc
       ELSE /\ messages' = Append(messages,
                    pushInfo("Joining", <<Head(todo).alias, Head(todo).field_name>>))
            /\ pc' = "joining"
            /\ todo' = todo
    /\ UNCHANGED <<in_call, layers, outputs, fields, report>>
    /\ UNCHANGED fixedVars

\* Lines 195-196: after the last layer the expression is said.
RiskCalc ==
    /\ alg = "risk" /\ pc = "join" /\ todo = <<>>
    /\ messages' = Append(messages, pushInfo("Calculating Risk", "expr"))
    /\ pc' = "calc"
    /\ UNCHANGED <<todo, in_call, layers, outputs, fields, report>>
    /\ UNCHANGED fixedVars

\* Lines 177-193, 197-212: the toolbox calls of the run:
\* native:joinattributestable for a layer is entered and returns the layer
\* the next join works on; native:fieldcalculator is entered and returns the
\* output, which the run returns.
RiskRun ==
    /\ alg = "risk"
    /\ \/ /\ pc = "joining" /\ in_call = ""
          /\ in_call' = "native:joinattributestable"
          /\ UNCHANGED <<pc, todo, outputs, report>>
       \/ /\ pc = "joining" /\ in_call = "native:joinattributestable"
          /\ in_call' = ""
          /\ outputs' = Append(outputs, Head(todo).alias)
          /\ todo' = Tail(todo)
          /\ pc' = "join"
          /\ report' = report
       \/ /\ pc = "calc" /\ in_call = ""
          /\ in_call' = "native:fieldcalculator"
          /\ UNCHANGED <<pc, todo, outputs, report>>
       \/ /\ pc = "calc" /\ in_call = "native:fieldcalculator"
          /\ in_call' = ""
          /\ outputs' = Append(outputs, "output")
          /\ pc' = "done"
          /\ report' = "completed"
          /\ todo' = todo
    /\ UNCHANGED <<messages, layers, fields>>
    /\ UNCHANGED fixedVars

InitRisk ==
    /\ alg = "risk"
    /\ listing = <<>>
    /\ params \in RiskInputs
    /\ load_maps = FALSE
    /\ NoRasterInputs
    /\ InitCommon

(***************************************************************************)
(* RiskMapperPlugin (plugin.py, "plugin"): the provider the plugin holds   *)
(* and the processing registry of the application.  Provider objects are   *)
(* numbered in the order of their creation; each has the id 'risk'         *)
(* (risk_provider.py, PROVIDER_ID).                                        *)
(***************************************************************************)
\* QgsApplication.processingRegistry().addProvider(p): the registry holds one
\* provider per id, so a provider whose id is registered already is refused
\* and deleted; the registry owns the provider it accepts.
addProvider(p) ==
    IF registry # {}
    THEN registry' = registry /\ deleted' = deleted \cup {p}
    ELSE registry' = {p} /\ deleted' = deleted

\* QgsApplication.processingRegistry().removeProvider(p): the provider
\* registered under the id of p is taken out and deleted.
removeProvider(p) ==
    /\ registry' = {}
    /\ deleted' = deleted \cup registry

\* Lines 12-14: self.provider = RiskMapperProvider(); addProvider(self.provider)
initProcessing ==
    /\ alg = "plugin" /\ created < MaxProviders
    /\ created' = created + 1
    /\ provider' = created + 1
    /\ addProvider(created + 1)
    /\ pc' = "initProcessing"
    /\ UNCHANGED <<alg, listing, canceled, cancelAt, report, messages, prepVars, aggVars>>

\* Lines 16-17: initGui calls initProcessing.
initGui ==
    /\ alg = "plugin" /\ created < MaxProviders
    /\ created' = created + 1
    /\ provider' = created + 1
    /\ addProvider(created + 1)
    /\ pc' = "initGui"
    /\ UNCHANGED <<alg, listing, canceled, cancelAt, report, messages, prepVars, aggVars>>

\* Lines 19-22: with a provider held, remove it from the registry and clear
\* the reference.  The call with a provider the registry has deleted raises
\* (the wrapped object is gone), and the reference stays.
unload ==
    /\ alg = "plugin"
    /\ pc' = "unload"
    /\ IF provider = 0
       THEN UNCHANGED <<provider, registry, deleted, report>>
       ELSE IF provider \in deleted
            THEN /\ report' = "error"
                 /\ UNCHANGED <<provider, registry, deleted>>
            ELSE /\ removeProvider(provider)
                 /\ provider' = 0
                 /\ report' = report
    /\ UNCHANGED <<alg, listing, canceled, cancelAt, created, messages, prepVars, aggVars>>

InitPlugin ==
    /\ alg = "plugin"
    /\ listing = <<>>
    /\ NoPrepInputs
    /\ NoAggInputs
    /\ params = None
    /\ InitCommon

(***************************************************************************)
(* Properties.                                                             *)
(***************************************************************************)
\* The contributor list of the unit being aggregated.
Contributors ==
    CASE alg = "summation" -> all_rasters
      [] alg = "monthly" -> rasters
      [] OTHER -> final_files

\* The value of pixel p of raster f with its nodata value counted as 0.
TrueData(f, p) ==
    IF f.nodata # None /\ ReadPixel(f, p) = f.nodata THEN WZero ELSE ReadPixel(f, p)

\* The arithmetic sum over the non-missing entries of paths[1..n] at p.
RECURSIVE TrueSum(_, _, _)
TrueSum(paths, n, p) ==
    IF n = 0 THEN WZero
    ELSE RAdd(TrueSum(paths, n - 1, p),
              IF paths[n] = None THEN WZero ELSE TrueData(Open(paths[n]), p))

\* C1: in every output of a run, every pixel equals the sum, over the
\* non-missing contributors of the unit taken once each, of the contributor's
\* value at that pixel, a value equal to the contributor's nodata counted as
\* 0.  Stated for the outputs whose pixel type holds every such sum
\* unchanged: the Float64 output of flat summation and the outputs of the
\* monthly and seasonal runs.
C1_OutputIsSumOfContributors ==
    \A i \in 1..Len(results) :
        (alg = "summation" => gdal_dtype_map(dtype_idx) = "Float64")
        => \A p \in DOMAIN results[i].px :
              results[i].px[p] = TrueSum(results[i].files, Len(results[i].files), p)

\* The accumulator over paths[1..n] at p when a pixel equal to its raster's
\* nodata value adds exactly nothing and every other pixel is converted and
\* added as the algorithm does.
RECURSIVE AccNodataZero(_, _, _)
AccNodataZero(paths, n, p) ==
    IF n = 0 THEN WZero
    ELSE LET rest == AccNodataZero(paths, n - 1, p)
         IN  IF paths[n] = None THEN rest
             ELSE LET f == Open(paths[n])
                  IN  IF f.nodata # None /\ ReadPixel(f, p) = f.nodata THEN rest
                      ELSE IF alg = "summation"
                           THEN AddUInt32(rest, IF IsFloat32(f)
                                                THEN FloatAsUInt32(ReadPixel(f, p))
                                                ELSE AsUInt32(ReadPixel(f, p)))
                           ELSE AddFloat32(rest, AsFloat32(ReadPixel(f, p)))

\* C2: in each of the three algorithms a pixel equal to the declared nodata
\* value of its raster contributes exactly zero to the accumulator, whatever
\* the nodata value (negative values included).
C2_NodataContributesZero ==
    \A p \in DOMAIN block_sum :
        block_sum[p] = AccNodataZero(Contributors, Len(Contributors), p)

TileInGrid(t, c, r) ==
    /\ 0 <= t.x /\ 0 <= t.y
    /\ 1 <= t.xsize /\ t.xsize <= block_size
    /\ 1 <= t.ysize /\ t.ysize <= block_size
    /\ t.x + t.xsize <= c
    /\ t.y + t.ysize <= r

TilesDisjoint(t, u) ==
    \/ t.x + t.xsize <= u.x \/ u.x + u.xsize <= t.x
    \/ t.y + t.ysize <= u.y \/ u.y + u.ysize <= t.y

RECURSIVE TileArea(_)
TileArea(ws) ==
    IF ws = <<>> THEN 0 ELSE Head(ws).xsize * Head(ws).ysize + TileArea(Tail(ws))

\* The blocks ws lie inside the c x r grid, are at most block_size wide and
\* high and are pairwise disjoint (so none is written twice).
DisjointTiles(ws, c, r) ==
    /\ \A i \in 1..Len(ws) : TileInGrid(ws[i], c, r)
    /\ \A i, j \in 1..Len(ws) : i < j => TilesDisjoint(ws[i], ws[j])

\* Disjoint blocks inside the grid cover it exactly when their areas add up
\* to the area of the grid.
ExactCover(ws, c, r) == DisjointTiles(ws, c, r) /\ TileArea(ws) = c * r

\* C3: the blocks (x, y, xsize, ysize) written by the nested block loops are
\* pairwise disjoint, lie inside the grid with 1 <= xsize, ysize <= 512, each
\* is written once, and when the loops end their union is the whole grid
\* [0, cols) x [0, rows).
C3_TilesPartitionGrid ==
    /\ DisjointTiles(writes, cols, rows)
    /\ pc = "flush" => ExactCover(writes, cols, rows)
    /\ \A i \in 1..Len(results) :
          ExactCover(results[i].writes, results[i].cols, results[i].rows)

\* A flat summation over a 1025 x 513 grid has written its 3 x 2 blocks.
C3_Witness ==
    /\ alg = "summation" /\ pc = "done"
    /\ cols = 1025 /\ rows = 513
    /\ Len(results) = 1 /\ Len(results[1].writes) = 6

\* v limited to lo..hi.
Saturated(v, lo, hi) == IF WLess(hi, v) THEN hi ELSE IF WLess(v, lo) THEN lo ELSE v

TypeMin(dt) ==
    CASE dt = "Int16" -> WInt(0 - 32768) [] dt = "Int32" -> W(0 - 32768, 0)
      [] OTHER -> WZero

TypeMax(dt) ==
    CASE dt = "Byte" -> WInt(255) [] dt = "UInt16" -> WInt(65535)
      [] dt = "UInt32" -> W(65535, 65535) [] dt = "Int16" -> WInt(32767)
      [] dt = "Int32" -> W(32767, 65535)

\* C4: in flat summation every written pixel of an integer output type is the
\* accumulated value limited to the range of the type, never a wrapped value;
\* a Float64 pixel is the accumulated value and a Float32 pixel is the
\* accumulated value itself below 2^24 and within float32 rounding (128 at
\* most for values below 2^32) above, with no limit applied.
C4_SaturatingCast ==
    alg = "summation" =>
        \A p \in DOMAIN block_sum :
            LET acc == block_sum[p]
                dt == gdal_dtype_map(dtype_idx)
            IN  CASE dt \in {"Byte", "UInt16", "UInt32", "Int16", "Int32"} ->
                        out_px[p] = Saturated(acc, TypeMin(dt), TypeMax(dt))
                  [] dt = "Float64" -> out_px[p] = acc
                  [] dt = "Float32" ->
                        /\ WLess(acc, W(256, 0)) => out_px[p] = acc
                        /\ WLeq(WAdd(acc, WInt(0 - 128)), out_px[p])
                        /\ WLeq(out_px[p], WAdd(acc, WInt(128)))

\* An accumulated 300 has been written to a Byte output as 255.
C4_Witness ==
    /\ alg = "summation" /\ gdal_dtype_map(dtype_idx) = "Byte"
    /\ \E p \in DOMAIN block_sum : block_sum[p] = WInt(300) /\ out_px[p] = WInt(255)

\* The sum without any width limit of the converted, nodata-substituted
\* windows of paths[1..n] at p.
RECURSIVE ExactSum(_, _, _)
ExactSum(paths, n, p) ==
    IF n = 0 THEN WZero
    ELSE WAdd(ExactSum(paths, n - 1, p), SumData(Open(paths[n]), p))

\* C5: in flat summation the value held in the accumulator after all
\* contributors were added equals the arithmetic sum of the
\* nodata-substituted inputs, for any number of contributors and any pixel
\* values.
C5_AccumulatorIsExactSum ==
    alg = "summation" =>
        \A p \in DOMAIN block_sum :
            block_sum[p] = ExactSum(all_rasters, Len(all_rasters), p)

\* The keys of season_raster_map whose list holds the observation o.
BucketsOf(o) ==
    {k \in DOMAIN season_raster_map : InSeq(o, season_raster_map[k])}

\* C6: for every season and every observation (year, month) whose month
\* token is in the season's month list, the observation is bucketed under
\* the season year `year` when its month number is at least the number of the
\* season's first listed month, and under year - 1 otherwise (and under no
\* other season year of that season).
C6_SeasonYearRollover ==
    (alg = "seasonal" /\ pc # "start") =>
        \A i \in 1..Len(seasons) : \A j \in 1..Len(rasters) :
            LET name == seasons[i][1]
                firstMonth == int(seasons[i][2][1])
                o == rasters[j]
                sy == IF int(o[2]) >= firstMonth THEN o[1] ELSE o[1] - 1
            IN  InSeq(o[2], seasons[i][2]) =>
                    {k \in BucketsOf(o) : k[2] = name} = {<<sy, name>>}

\* With DJF = [12, 01, 02], an observation of 2023-01 is in the bucket
\* (2022, DJF) and an observation of 2023-12 in the bucket (2023, DJF).
C6_Witness ==
    /\ alg = "seasonal" /\ pc = "done"
    /\ seasons = << <<"DJF", <<<<"1", "2">>, <<"0", "1">>, <<"0", "2">>>> >> >>
    /\ \E o \in {rasters[j] : j \in 1..Len(rasters)} :
          o[1] = 2023 /\ o[2] = <<"0", "1">> /\ BucketsOf(o) = {<<2022, "DJF">>}
    /\ \E o \in {rasters[j] : j \in 1..Len(rasters)} :
          o[1] = 2023 /\ o[2] = <<"1", "2">> /\ BucketsOf(o) = {<<2023, "DJF">>}

\* ff is a gap-filled list for the bucket k: one slot per month token of the
\* season in the user's order, the slot of a month holding the path of an
\* observation of the bucket with that month when there is one and None
\* otherwise.
GapFilled(ff, k) ==
    LET ms == SeasonMonths(k[2])
        bucket == season_raster_map[k]
    IN  /\ Len(ff) = Len(ms)
        /\ \A i \in 1..Len(ms) :
              IF \E n \in 1..Len(bucket) : bucket[n][2] = ms[i]
              THEN \E n \in 1..Len(bucket) : bucket[n][2] = ms[i] /\ ff[i] = bucket[n][3]
              ELSE ff[i] = None

\* C7: for every processed (season-year, season) bucket the final contributor
\* list has one slot per month token of the season, in the user's order; slot
\* i holds the path of an observation of the bucket with the i-th month when
\* one exists and None otherwise.
C7_GapFilling ==
    alg = "seasonal" =>
        /\ pc \in {"blocks", "flush"} => GapFilled(final_files, Head(todo))
        /\ \A i \in 1..Len(results) : GapFilled(results[i].files, results[i].key)

\* The unit (2020, DJF) of a folder with one raster of 2021-01 and one of
\* 2021-02 is finished: its list is None, the January path, the February path.
C7_Witness ==
    /\ alg = "seasonal"
    /\ \E i \in 1..Len(results) :
          /\ results[i].key = <<2020, "DJF">>
          /\ results[i].files = <<None,
                                  <<"in", <<"f", "l", "o", "o", "d", "_", "2", "0", "2", "1", "-", "0", "1", "-", "1", "5", ".", "t", "i", "f">>>>,
                                  <<"in/sub", <<"f", "l", "o", "o", "d", "_", "2", "0", "2", "1", "-", "0", "2", "-", "0", "1", ".", "t", "i", "f">>>> >>

\* C8: the output of a seasonal unit computed from a contributor list with
\* None entries is pixel for pixel the output computed from the list with the
\* None entries removed, and no file is opened for a None entry.
C8_MissingMonthsAddNothing ==
    alg = "seasonal" =>
        /\ \A i \in 1..Len(opened) : opened[i] # None
        /\ LET ff == SelectSeq(final_files, LAMBDA e : e # None)
           IN  \A p \in DOMAIN block_sum : block_sum[p] = CalBlockSum(ff, Len(ff), p)
        /\ \A i \in 1..Len(results) :
              LET ff == SelectSeq(results[i].files, LAMBDA e : e # None)
              IN  \A p \in DOMAIN results[i].px :
                      results[i].px[p] = CalBlockSum(ff, Len(ff), p)

\* A finished unit with a missing month and a non-zero pixel.
C8_Witness ==
    /\ alg = "seasonal"
    /\ \E i \in 1..Len(results) :
          /\ InSeq(None, results[i].files)
          /\ \E p \in DOMAIN results[i].px : results[i].px[p] # WZero
          /\ Len(opened) > 0

\* The files of the listing that are .tif files with a date in their name.
DatedTifs ==
    {f \in {listing[i] : i \in 1..Len(listing)} :
        IsTif(f.name) /\ \E i \in 1..Len(f.name) : DateAt(f.name, i)}

\* C9: every .tif file name holding a YYYY-MM-DD pattern is under the key MM
\* of its first match from the left, and under no other key; files with the
\* same MM are in one unit whatever their year or subfolder; every key
\* produces exactly one output, in a finished run.
C9_MonthlyClassification ==
    (alg = "monthly" /\ pc # "start") =>
        /\ \A f \in DatedTifs :
              \E i \in 1..Len(f.name) :
                  /\ DateAt(f.name, i)
                  /\ \A j \in 1..(i - 1) : ~DateAt(f.name, j)
                  /\ {k \in DOMAIN rasters_by_month : InSeq(Path(f), rasters_by_month[k])}
                        = {SubSeq(f.name, i + 5, i + 6)}
        /\ \A k \in DOMAIN rasters_by_month : \A n \in 1..Len(rasters_by_month[k]) :
              \E f \in DatedTifs : Path(f) = rasters_by_month[k][n]
        /\ pc = "done" =>
              /\ Len(results) = Cardinality(DOMAIN rasters_by_month)
              /\ \A k \in DOMAIN rasters_by_month :
                    \E i \in 1..Len(results) :
                        results[i].key = k /\ results[i].files = rasters_by_month[k]

\* flood_2021-01-15.tif and flood_2021-01-28.tif are both under key "01",
\* which produced the one output of the run.
C9_Witness ==
    /\ alg = "monthly" /\ pc = "done"
    /\ DOMAIN rasters_by_month = {<<"0", "1">>}
    /\ Len(rasters_by_month[<<"0", "1">>]) = 2
    /\ {rasters_by_month[<<"0", "1">>][n] : n \in 1..2} =
          {<<"in", <<"f", "l", "o", "o", "d", "_", "2", "0", "2", "1", "-", "0", "1", "-", "1", "5", ".", "t", "i", "f">>>>,
           <<"in", <<"f", "l", "o", "o", "d", "_", "2", "0", "2", "1", "-", "0", "1", "-", "2", "8", ".", "t", "i", "f">>>>}
    /\ Len(results) = 1

\* C10: when cancellation is signalled after the first of three rows of
\* blocks, exactly that row has been written, no later block is read or
\* written, and the run ends reporting cancelled, not completed.
C10_CancelStopsBlocks ==
    (canceled /\ rows > 2 * block_size /\ rows <= 3 * block_size
        /\ cancelAt * block_size >= cols /\ cancelAt > 0
        /\ (cancelAt - 1) * block_size < cols) =>
        /\ Len(writes) = cancelAt
        /\ pc = "done" => report = "cancelled"

\* The reference raster of a contributor list: its first entry that is not a
\* missing month.
Reference(ff) ==
    ff[CHOOSE i \in 1..Len(ff) : ff[i] # None /\ \A j \in 1..(i - 1) : ff[j] = None]

\* Raster f is on the grid of raster ref.
SameGrid(f, ref) ==
    /\ f.cols = ref.cols /\ f.rows = ref.rows
    /\ f.geo = ref.geo /\ f.proj = ref.proj

\* Every raster named in ff is on the grid of the reference raster of ff.
OneGrid(ff) ==
    \A n \in 1..Len(ff) : ff[n] # None => SameGrid(Open(ff[n]), Open(Reference(ff)))

\* C11: a contributor that differs from the reference raster of its unit in
\* width, height, geotransform or projection is never tolerated: no block is
\* accumulated and written from a contributor list holding such a raster, and
\* no output is finished from one.
C11_GridMismatchIsFatal ==
    /\ writes # <<>> => OneGrid(Contributors)
    /\ \A i \in 1..Len(results) : OneGrid(results[i].files)

\* The units of a monthly or seasonal run.
UnitKeys ==
    IF alg = "monthly" THEN DOMAIN rasters_by_month ELSE DOMAIN season_raster_map

\* No qualifying raster was discovered for the whole job.
NoInputFound ==
    CASE alg = "summation" -> \A i \in 1..Len(listing) : ~IsTif(listing[i].name)
      [] alg = "monthly" -> DatedTifs = {}
      [] OTHER -> DOMAIN season_raster_map = {}

Said(kind) == \E i \in 1..Len(messages) : messages[i].kind = kind

\* C12: a run that discovered no qualifying raster ends in a fatal error, has
\* created no output raster, and has not reported success.
C12_NoInputIsFatal ==
    (alg \in {"summation", "monthly", "seasonal"} /\ pc # "start" /\ NoInputFound) =>
        /\ pc = "failed" /\ report = "error"
        /\ out_ds = None /\ results = <<>>
        /\ ~Said("All created")

\* C13: in a monthly or seasonal run that is over, every unit other than a
\* unit that failed has been processed: a failure in one unit does not keep
\* the units after it from being processed.
C13_UnitErrorsIsolated ==
    (alg \in {"monthly", "seasonal"} /\ pc \in {"done", "failed"}) =>
        \A k \in UnitKeys :
            \/ \E i \in 1..Len(results) : results[i].key = k
            \/ pc = "failed" /\ k = Head(todo)

\* The .tif files of the listing whose name holds no YYYY-MM-DD pattern.
UndatedTifs ==
    {f \in {listing[i] : i \in 1..Len(listing)} :
        IsTif(f.name) /\ \A i \in 1..Len(f.name) : ~DateAt(f.name, i)}

\* The paths grouped into some unit.
UnitPaths ==
    IF alg = "monthly"
    THEN UNION {{rasters_by_month[k][n] : n \in 1..Len(rasters_by_month[k])} :
                    k \in DOMAIN rasters_by_month}
    ELSE UNION {{season_raster_map[k][n][3] : n \in 1..Len(season_raster_map[k])} :
                    k \in DOMAIN season_raster_map}

\* The dated .tif files a run has to classify: all of them in a monthly run;
\* in a seasonal run those whose month is in some season (and whose year is
\* not 0000).
Classifiable ==
    {f \in DatedTifs :
        alg = "seasonal" =>
            LET i == DateSearch(f.name)
            IN  /\ SubSeq(f.name, i, i + 3) # <<"0", "0", "0", "0">>
                /\ \E n \in 1..Len(seasons) : InSeq(SubSeq(f.name, i + 5, i + 6), seasons[n][2])}

\* C14: in a monthly or seasonal run every .tif whose name holds no
\* YYYY-MM-DD pattern is reported by name and is in no unit, the other files
\* are classified all the same, and the run does not fail in classification
\* (a failed run has created an output: it failed later, in a unit).
C14_UnclassifiedFilesNonFatal ==
    (alg \in {"monthly", "seasonal"} /\ pc # "start") =>
        LET grouped == UnitPaths
        IN  /\ \A f \in UndatedTifs :
                  /\ \E i \in 1..Len(messages) :
                        messages[i].kind = "Skipping" /\ messages[i].about = f.name
                  /\ Path(f) \notin grouped
            /\ \A f \in Classifiable : Path(f) \in grouped
            /\ pc = "failed" => out_ds # None

\* flood.tif was discovered before a dated raster in a monthly run: it was
\* reported, and the run finished with the output of the dated raster.
C14_Witness ==
    /\ alg = "monthly" /\ pc = "done"
    /\ Len(listing) = 2
    /\ listing[1].name = <<"f", "l", "o", "o", "d", ".", "t", "i", "f">>
    /\ listing[2] \in DatedTifs
    /\ Len(results) = 1 /\ results[1].files = <<Path(listing[2])>>
    /\ \E i \in 1..Len(messages) :
          messages[i].kind = "Skipping" /\ messages[i].about = listing[1].name

\* All orders of the sequence ff.
Orders(ff) ==
    {[i \in 1..Len(ff) |-> ff[q[i]]] :
        q \in {r \in [1..Len(ff) -> 1..Len(ff)] :
                  \A i, j \in 1..Len(ff) : r[i] = r[j] => i = j}}

\* C15: the accumulated block is the same for every order of the
\* contributor list: at every pixel of the last accumulated block, the
\* accumulation over any permutation of the contributors gives the value
\* accumulated, exactly (the uint32 accumulator of flat summation and, for the
\* rasters of these runs, the float32 accumulator of the calendar runs).
C15_OrderIndependence ==
    alg \in {"summation", "monthly", "seasonal"} =>
        LET orders == Orders(Contributors)
        IN  \A p \in DOMAIN block_sum : \A ff \in orders :
                block_sum[p] = IF alg = "summation"
                               THEN SumBlockSum(ff, Len(ff), p)
                               ELSE CalBlockSum(ff, Len(ff), p)

\* A flat summation has accumulated a block from two rasters that differ at
\* a pixel of it.
C15_Witness ==
    /\ alg = "summation" /\ Len(all_rasters) = 2
    /\ \E p \in DOMAIN block_sum :
          /\ SumData(Open(all_rasters[1]), p) # SumData(Open(all_rasters[2]), p)
          /\ block_sum[p] # WZero

\* C18: at the end of a monthly or seasonal run the user is given a summary
\* with the count of outputs produced and the list of skipped or failed
\* units, and "all maps created" is said only when every unit of the run
\* produced its output and there was at least one.
C18_EndOfRunReport ==
    (alg \in {"monthly", "seasonal"} /\ pc \in {"done", "failed"}) =>
        /\ Said("Summary")
        /\ Said("All created") =>
              /\ results # <<>>
              /\ \A k \in UnitKeys : \E i \in 1..Len(results) : results[i].key = k

\* The pixel type of the outputs of the run.
OutputType == IF alg = "summation" THEN gdal_dtype_map(dtype_idx) ELSE "Float32"

\* C19: the output raster of a unit has the width, height, geotransform and
\* projection of the first non-missing contributor of the unit, one band and
\* nodata 0; it is created before any tile is read: until it exists nothing
\* was opened or written, and right after its creation the only raster
\* opened is that contributor.
C19_GridMetadataResolution ==
    alg \in {"summation", "monthly", "seasonal"} =>
        /\ out_ds = None => opened = <<>> /\ writes = <<>> /\ block_sum = <<>>
        /\ out_ds # None =>
              LET ref == Open(Reference(Contributors))
              IN  /\ out_ds = [cols |-> ref.cols, rows |-> ref.rows, bands |-> 1,
                               dtype |-> OutputType, geo |-> ref.geo,
                               proj |-> ref.proj, nodata |-> 0]
                  /\ cols = ref.cols /\ rows = ref.rows
                  /\ DOMAIN out_px = Probes(ref.cols, ref.rows)
                  /\ opened[1] = Reference(Contributors)
        /\ (pc = "blocks" /\ writes = <<>>) => opened = <<Reference(Contributors)>>

\* A seasonal unit whose first month is missing, whose second month is a
\* raster on the 2 x 2 grid and whose third is the 1 x 1 raster: the output
\* was created on the grid of the second.
C19_Witness ==
    /\ alg = "seasonal" /\ out_ds # None
    /\ Len(final_files) = 3
    /\ final_files[1] = None /\ final_files[2] # None /\ final_files[3] # None
    /\ Open(final_files[3]).cols = 1
    /\ out_ds.cols = 2 /\ out_ds.rows = 2 /\ out_ds.geo = "gt0"

\* Unit key a is processed before unit key b.
KeyBefore(a, b) == IF alg = "monthly" THEN MonthLess(a, b) ELSE KeyLess(a, b)

\* The units of the run in the order of processing: those finished, then
\* the current one and those to come.
ProcessingOrder == [i \in 1..Len(results) |-> results[i].key] \o todo

\* C20: the units of a monthly or seasonal run are processed one at a time
\* in ascending key order, (season-year, season-name) or month, whatever the
\* order of discovery; at any time every unit before the current one is
\* finished: fully written, flushed ("Saved") and, when loading is asked for,
\* its registration done (the layer added, or said not to load), before the
\* output of the current unit is created.
C20_DeterministicUnitOrder ==
    (alg \in {"monthly", "seasonal"} /\ pc # "start") =>
        /\ \A i, j \in 1..Len(ProcessingOrder) :
              i < j => KeyBefore(ProcessingOrder[i], ProcessingOrder[j])
        /\ {ProcessingOrder[i] : i \in 1..Len(ProcessingOrder)} = UnitKeys
        /\ \A i \in 1..Len(results) :
              ExactCover(results[i].writes, results[i].cols, results[i].rows)
        /\ LET tried == SelectSeq(messages,
                                  LAMBDA m : m.kind \in {"Loaded", "Failed to load"})
               loaded == SelectSeq(messages, LAMBDA m : m.kind = "Loaded")
           IN  /\ [i \in 1..Len(tried) |-> tried[i].about]
                     = IF load_maps THEN [i \in 1..Len(results) |-> results[i].key]
                                    ELSE <<>>
               /\ layers = [i \in 1..Len(loaded) |-> loaded[i].about]
        /\ LET saved == SelectSeq(messages, LAMBDA m : m.kind = "Saved")
           IN  [i \in 1..Len(saved) |-> saved[i].about]
                  = [i \in 1..Len(results) |-> results[i].key]

\* A seasonal run with JFM defined before DJF that discovered the February
\* raster first has finished (2020, DJF) and then (2021, JFM) and registered
\* both.
C20_Witness ==
    /\ alg = "seasonal" /\ pc = "done" /\ load_maps
    /\ seasons[1][1] = "JFM"
    /\ Len(listing) = 2
    /\ listing[1].name = <<"f", "l", "o", "o", "d", "_", "2", "0", "2", "1", "-", "0", "2", "-", "0", "1", ".", "t", "i", "f">>
    /\ Len(results) = 2
    /\ results[1].key = <<2020, "DJF">> /\ results[2].key = <<2021, "JFM">>
    /\ layers = <<<<2020, "DJF">>, <<2021, "JFM">>>>

\* C16: every pixel of the output of a binary conversion is 0 or 1, and it
\* is 1 exactly when the input value is greater than the threshold, a pixel
\* equal to the nodata value of the input being taken as the value 0.
C16_BinaryConversion ==
    (alg = "binary" /\ pc = "done") =>
        /\ DOMAIN out_px = Probes(listing[1].cols, listing[1].rows)
        /\ \A p \in DOMAIN out_px :
              /\ out_px[p] \in {WInt(0), WInt(1)}
              /\ out_px[p] = WInt(1) <=> RLess(threshold, TrueData(listing[1], p))

\* The part of s after its last underscore, s itself when it has none.
AfterLastUnderscore(str) ==
    IF \E i \in 1..Len(str) : str[i] = "_"
    THEN SubSeq(str, 1 + (CHOOSE i \in 1..Len(str) :
                            str[i] = "_" /\ \A j \in (i + 1)..Len(str) : str[j] # "_"),
                Len(str))
    ELSE str

\* The key the claim gives the raster called fname (a .tif name) is k.
IsFieldKey(fname, k) ==
    LET base == SubSeq(fname, 1, Len(fname) - 4)
        parts == split(base, "_")
    IN  IF alg = "monthly_zonal"
        THEN Len(parts) >= 2 =>
                k = Slice(parts[Len(parts) - 1], SliceObj(date_id).start, SliceObj(date_id).end)
        ELSE k = AfterLastUnderscore(base)

\* C17: when a zonal-statistics, area or monthly zonal run is over (and did
\* not reject its DATE_ID), every .tif of the folder has its field key: the
\* part of the base name after the final underscore (the whole base name
\* without one), or in the monthly zonal algorithm the start:end slice of the
\* date part of the base name.
C17_FieldKeyDefined ==
    (alg \in KeyAlgs /\ pc \in {"done", "failed"} /\ report # "Invalid date identifier") =>
        \A f \in {listing[i] : i \in 1..Len(listing)} :
            IsTif(f.name) =>
                \E i \in 1..Len(fields) :
                    fields[i].raster = f.name /\ IsFieldKey(f.name, fields[i].suffix)

\* Whether, from call i of evs on and with h contributor handles open
\* before it, there is never more than one handle open and none when a
\* contributor is opened or a tile is written.
RECURSIVE HandlesScoped(_, _, _)
HandlesScoped(evs, i, h) ==
    IF i > Len(evs) THEN TRUE
    ELSE LET after == h + (IF evs[i].op = "open" THEN 1
                           ELSE IF evs[i].op = "close" /\ evs[i].on # Out THEN 0 - 1
                           ELSE 0)
         IN  /\ after \in {0, 1}
             /\ evs[i].op \in {"open", "write"} => h = 0
             /\ HandlesScoped(evs, i + 1, after)

\* The position of the call that creates the output in evs.
CreatedAt(evs) == CHOOSE i \in 1..Len(evs) : evs[i].op = "create"

\* C21: at every point of an aggregation run at most one contributor raster
\* handle is open; in the block loops every open is followed at once by the
\* windowed read of the raster opened and that by the release of the handle
\* (a read that raises ends the run), so the handle is released before the
\* next contributor is opened and before the tile is written.
C21_ScopedInputHandles ==
    alg \in {"summation", "monthly", "seasonal"} =>
        LET creation == CreatedAt(events)
        IN  /\ HandlesScoped(events, 1, 0)
            /\ \A i \in 1..Len(events) :
                  /\ (events[i].op = "open" /\ i > creation) =>
                        /\ i < Len(events)
                        /\ events[i + 1].op = "read" /\ events[i + 1].on = events[i].on
                        /\ IF i + 1 = Len(events)
                           THEN pc = "failed"
                           ELSE events[i + 2].op = "close" /\ events[i + 2].on = events[i].on
                  /\ events[i].op = "read" => events[i - 1].op = "open"

\* A flat summation has written a block accumulated from two rasters: six
\* calls on the contributors lie between the creation and the write.
C21_Witness ==
    /\ alg = "summation" /\ Len(all_rasters) = 2
    /\ Len(events) >= 10
    /\ events[10].op = "write"
    /\ events[4].op = "open" /\ events[7].op = "open"
    /\ events[4].on # events[7].on

\* The rows of blocks completed on the current output.
RowBands == {i \in 1..Len(writes) : writes[i].x + writes[i].xsize = cols}

\* C22: every aggregation run (summation, monthly, seasonal) emits a
\* progress value once per completed row of blocks; the values emitted are
\* non-decreasing and within 0..100, and when all blocks of an output have
\* been written the last value emitted is 100.
C22_ProgressPerRowBand ==
    alg \in {"summation", "monthly", "seasonal"} =>
        /\ \A i \in 1..Len(progress) : 0 <= progress[i] /\ progress[i] <= 100
        /\ \A i, j \in 1..Len(progress) : i < j => progress[i] <= progress[j]
        /\ pc = "blocks" => Len(progress) >= Cardinality(RowBands)
        /\ pc = "flush" => (progress # <<>> /\ progress[Len(progress)] = 100)

\* The positions of the calls op in the calls of the current unit.
Calls(op) == {i \in 1..Len(events) : events[i].op = op}

\* C23: the output raster of a unit is flushed and closed only after its
\* last tile was written (the tiles written cover the grid and no tile is
\* written later), a layer is registered only after that flush and only when
\* the load option is true, every registered layer is an output already
\* flushed, and with the load option false no layer is ever registered.
C23_FinalizationOrder ==
    alg \in {"summation", "monthly", "seasonal"} =>
        /\ \A i \in Calls("flush") :
              /\ ExactCover(writes, cols, rows)
              /\ Cardinality({j \in Calls("write") : j < i}) = Len(writes)
              /\ \A j \in Calls("write") : j < i
              /\ i < Len(events) /\ events[i + 1] = Ev("close", Out)
        /\ \A i \in Calls("addMapLayer") :
              /\ load_maps
              /\ \E j \in Calls("flush") : j < i
        /\ \A i \in 1..Len(layers) : \E j \in 1..Len(results) : results[j].key = layers[i]
        /\ ~load_maps => layers = <<>>

\* A monthly run with the load option set has finished a unit of two blocks:
\* the calls of the unit end with the second write, the flush, the close and
\* the registration.
C23_Witness ==
    /\ alg = "monthly" /\ load_maps /\ pc = "done"
    /\ Len(writes) = 2 /\ Len(layers) = 1
    /\ LET n == Len(events)
       IN  /\ n >= 4
           /\ events[n].op = "addMapLayer" /\ events[n - 1].op = "close"
           /\ events[n - 2].op = "flush" /\ events[n - 3].op = "write"

\* Observation a is not after observation b in ascending (year, month) order.
YearMonthLeq(a, b) ==
    a[1] < b[1] \/ (a[1] = b[1] /\ int(a[2]) <= int(b[2]))

\* In the unit of bucket k with contributor list ff: the bucket is in
\* ascending (year, month) order, the slot of each month holds the first
\* observation of the bucket with that month and no other observation of the
\* bucket is in the list, which has one slot per month token.
FirstOfMonthOnly(ff, k) ==
    LET ms == SeasonMonths(k[2])
        bucket == season_raster_map[k]
        firstOf(m) == CHOOSE n \in 1..Len(bucket) :
                          bucket[n][2] = m /\ \A l \in 1..(n - 1) : bucket[l][2] # m
    IN  /\ \A a, b \in 1..Len(bucket) : a < b => YearMonthLeq(bucket[a], bucket[b])
        /\ Len(ff) = Len(ms)
        /\ \A i \in 1..Len(ms) :
              (\E n \in 1..Len(bucket) : bucket[n][2] = ms[i])
                  => ff[i] = bucket[firstOf(ms[i])][3]
        /\ \A n \in 1..Len(bucket) :
              n # firstOf(bucket[n][2]) => ~InSeq(bucket[n][3], ff)

\* C24: when a (season-year, season) bucket holds several observations with
\* the same month token, only the first of them in ascending (year, month)
\* order fills the month's slot; the others are not in the contributor list
\* and are never opened in the block loop, and no block of a seasonal unit is
\* summed from more rasters than the season has month tokens.
C24_SeasonalDuplicateMonths ==
    alg = "seasonal" =>
        /\ pc \in {"blocks", "flush"} =>
              /\ FirstOfMonthOnly(final_files, Head(todo))
              /\ \A i \in 2..Len(opened) : InSeq(opened[i], final_files)
              /\ Len(opened) - 1 <= Len(writes) * Len(SeasonMonths(Head(todo)[2]))
        /\ \A i \in 1..Len(results) : FirstOfMonthOnly(results[i].files, results[i].key)

\* flood_2021-01-28.tif was discovered before flood_2021-01-15.tif: both are
\* in the bucket (2021, JFM) and the finished unit summed the first only.
C24_Witness ==
    /\ alg = "seasonal" /\ pc = "done"
    /\ Len(listing) = 2
    /\ listing[1].name = <<"f", "l", "o", "o", "d", "_", "2", "0", "2", "1", "-", "0", "1", "-", "2", "8", ".", "t", "i", "f">>
    /\ listing[2].name = <<"f", "l", "o", "o", "d", "_", "2", "0", "2", "1", "-", "0", "1", "-", "1", "5", ".", "t", "i", "f">>
    /\ <<2021, "JFM">> \in DOMAIN season_raster_map
    /\ Len(season_raster_map[<<2021, "JFM">>]) = 2
    /\ \E i \in 1..Len(results) :
          /\ results[i].key = <<2021, "JFM">>
          /\ results[i].files = <<Path(listing[1]), None, None>>

\* C25: every observation of a (season-year S, season) bucket has calendar
\* year S or S + 1, and it has year S + 1 exactly when its month number is
\* smaller than the number of the season's first listed month, whatever the
\* order the months of the season are listed in.
C25_BucketYearBound ==
    alg = "seasonal" =>
        \A k \in DOMAIN season_raster_map : \A n \in 1..Len(season_raster_map[k]) :
            LET o == season_raster_map[k][n]
                first == int(SeasonMonths(k[2])[1])
            IN  /\ o[1] \in {k[1], k[1] + 1}
                /\ o[1] = k[1] + 1 <=> int(o[2]) < first

\* With the season ODD = [02, 12, 01] the bucket (2020, ODD) holds an
\* observation of 2021-01 and the bucket (2021, ODD) one of 2021-02.
C25_Witness ==
    /\ alg = "seasonal" /\ seasons[1][1] = "ODD"
    /\ <<2020, "ODD">> \in DOMAIN season_raster_map
    /\ <<2021, "ODD">> \in DOMAIN season_raster_map
    /\ \E n \in 1..Len(season_raster_map[<<2020, "ODD">>]) :
          LET o == season_raster_map[<<2020, "ODD">>][n]
          IN  o[1] = 2021 /\ o[2] = <<"0", "1">>
    /\ \E n \in 1..Len(season_raster_map[<<2021, "ODD">>]) :
          LET o == season_raster_map[<<2021, "ODD">>][n]
          IN  o[1] = 2021 /\ o[2] = <<"0", "2">>

\* The rasters of the bucket k.
BucketFiles(k) ==
    {Open(season_raster_map[k][n][3]) : n \in 1..Len(season_raster_map[k])}

\* C26: every bucket of a seasonal run holds an observation of a month of
\* its season, so the gap-filled list of every unit that reaches output
\* creation has a non-missing entry, and the grid the output of a unit is
\* created on is that of a raster of the bucket of that unit.
C26_UnitGridFromOwnRaster ==
    alg = "seasonal" =>
        /\ \A k \in DOMAIN season_raster_map :
              \E n \in 1..Len(season_raster_map[k]) :
                  InSeq(season_raster_map[k][n][2], SeasonMonths(k[2]))
        /\ pc \in {"blocks", "flush", "failed"} =>
              /\ \E i \in 1..Len(final_files) : final_files[i] # None
              /\ \E f \in BucketFiles(Head(todo)) :
                    /\ out_ds.cols = f.cols /\ out_ds.rows = f.rows
                    /\ out_ds.geo = f.geo /\ out_ds.proj = f.proj
                    /\ cols = f.cols /\ rows = f.rows
        /\ \A i \in 1..Len(results) :
              \E f \in BucketFiles(results[i].key) :
                  results[i].cols = f.cols /\ results[i].rows = f.rows

\* The second unit of a run was created on the grid of its own raster, which
\* is not the grid of the output of the first unit.
C26_Witness ==
    /\ alg = "seasonal" /\ pc = "blocks"
    /\ Len(results) = 1 /\ results[1].cols = 1
    /\ cols = 2 /\ rows = 2 /\ out_ds.geo = "gt0"

\* The observations of a seasonal run.
Observations == {rasters[j] : j \in 1..Len(rasters)}

\* The number of times observation o is in the bucket k.
TimesIn(o, k) ==
    Cardinality({n \in 1..Len(season_raster_map[k]) : season_raster_map[k][n] = o})

\* Observation o is in exactly one bucket of every season that lists its
\* month, once, and in no bucket of any other season.
InOneBucketPerSeason(o) ==
    \A i \in 1..Len(seasons) :
        LET mine == {k \in DOMAIN season_raster_map : k[2] = seasons[i][1] /\ TimesIn(o, k) > 0}
        IN  IF InSeq(o[2], seasons[i][2])
            THEN Cardinality(mine) = 1 /\ \A k \in mine : TimesIn(o, k) = 1
            ELSE mine = {}

\* The finished units of the season called name that summed the raster of o.
UnitsSumming(o, name) ==
    {i \in 1..Len(results) : results[i].key[2] = name /\ InSeq(o[3], results[i].files)}

\* An earlier observation of the same bucket has the month token of o.
Shadowed(o, k) ==
    LET bucket == season_raster_map[k]
    IN  \E n, l \in 1..Len(bucket) : l < n /\ bucket[n] = o /\ bucket[l][2] = o[2]

\* C27 as claimed: each observation is in exactly one bucket of every season
\* whose month list holds its month token and in no bucket of another
\* season; in a finished run an observation whose month no season lists
\* contributes to no output, and one listed by two seasons contributes to one
\* unit of each.
C27_Original ==
    (alg = "seasonal" /\ pc # "start") =>
        \A o \in Observations :
            /\ InOneBucketPerSeason(o)
            /\ pc = "done" =>
                  \A i \in 1..Len(seasons) :
                      Cardinality(UnitsSumming(o, seasons[i][1]))
                          = IF InSeq(o[2], seasons[i][2]) THEN 1 ELSE 0

\* The units reached so far, each with its contributor list: those finished
\* and the one being processed.
UnitsReached ==
    {[key |-> results[i].key, files |-> results[i].files] : i \in 1..Len(results)}
        \cup (IF pc \in {"blocks", "flush", "failed"}
              THEN {[key |-> Head(todo), files |-> final_files]} ELSE {})

\* C27, amended: each observation is in exactly one bucket of every season
\* whose month list holds its month token and in no bucket of another
\* season; it is a contributor of a unit exactly when the unit is that of a
\* bucket it is in and no earlier observation of that bucket has the same
\* month token (so one that no season lists contributes to no output, and
\* one listed by two seasons contributes to at most one unit of each).
C27_SeasonMembership ==
    (alg = "seasonal" /\ pc # "start") =>
        \A o \in Observations :
            /\ InOneBucketPerSeason(o)
            /\ \A u \in UnitsReached :
                  InSeq(o[3], u.files) <=> (TimesIn(o, u.key) > 0 /\ ~Shadowed(o, u.key))

\* With JFM defined before DJF, the raster of 2021-01-15 is in the buckets
\* (2021, JFM) and (2020, DJF), and the finished run summed it in the unit
\* of each.
C27_Witness ==
    /\ alg = "seasonal" /\ pc = "done" /\ Len(seasons) = 2
    /\ \E o \in Observations :
          /\ o[1] = 2021 /\ o[2] = <<"0", "1">>
          /\ BucketsOf(o) = {<<2021, "JFM">>, <<2020, "DJF">>}
          /\ Cardinality(UnitsSumming(o, "JFM")) = 1
          /\ Cardinality(UnitsSumming(o, "DJF")) = 1

\* 2^32.
TwoTo32 == W(65536, 0)

\* v modulo 2^32, for a v of at least -2^32 and below 2^32.
Mod32(v) == IF WLess(Floor(v), WZero) THEN RAdd(v, TwoTo32) ELSE v

\* What pixel p of raster f adds to the sum by the claim as made: its value
\* modulo 2^32, or 0 when that converted value is the nodata value of the
\* raster.
ModContribution(f, p) ==
    LET u == Mod32(ReadPixel(f, p))
    IN  IF f.nodata # None /\ u = f.nodata THEN WZero ELSE u

RECURSIVE ModContributionSum(_, _, _)
ModContributionSum(paths, n, p) ==
    IF n = 0 THEN WZero
    ELSE RAdd(ModContributionSum(paths, n - 1, p), ModContribution(Open(paths[n]), p))

\* C28 as claimed: in flat summation every pixel, negative ones included,
\* enters the sum as its value modulo 2^32 and is zeroed only when that
\* converted value equals the nodata value of its raster; every accumulated
\* and every written value is at least 0.
C28_Original ==
    alg = "summation" =>
        /\ \A p \in DOMAIN block_sum :
              /\ WLeq(WZero, block_sum[p]) /\ WLess(block_sum[p], TwoTo32)
              /\ \E k \in 0..Len(all_rasters) :
                    RAdd(block_sum[p], W(k * 65536, 0))
                        = ModContributionSum(all_rasters, Len(all_rasters), p)
        /\ \A p \in DOMAIN out_px : WLeq(WZero, out_px[p])

\* Whether astype(np.uint32) is defined for pixel p of f: for every pixel
\* of an integer raster, and for a float whose truncation is in the range
\* of uint32.
Convertible(f, p) ==
    \/ ~IsFloat32(f)
    \/ /\ ReadPixel(f, p) # NaN
       /\ 0 <= Trunc(ReadPixel(f, p))[1] /\ Trunc(ReadPixel(f, p))[1] < Base

\* The converted value of a convertible pixel: an integer modulo 2^32, a
\* float truncated toward zero.
Converted(f, p) ==
    IF IsFloat32(f) THEN Trunc(ReadPixel(f, p)) ELSE Mod32(ReadPixel(f, p))

\* What a convertible pixel adds to the sum: its converted value, or 0 when
\* that is the nodata value of the raster.
Contribution(f, p) ==
    IF f.nodata # None /\ Converted(f, p) = f.nodata THEN WZero ELSE Converted(f, p)

RECURSIVE ContributionSum(_, _, _)
ContributionSum(paths, n, p) ==
    IF n = 0 THEN WZero
    ELSE WAdd(ContributionSum(paths, n - 1, p), Contribution(Open(paths[n]), p))

\* C28, amended: in flat summation a pixel of an integer raster enters the
\* sum as its value modulo 2^32 (a negative value v as v + 2^32) and a pixel
\* of a float raster as its value truncated toward zero (a value between -1
\* and 0 as 0) when that is in the range of uint32; a pixel is zeroed only
\* when that converted value equals the nodata value of its raster, so no
\* pixel of a raster with a negative nodata value is zeroed; the
\* accumulator is the sum of these contributions modulo 2^32, and every
\* accumulated and every written value is at least 0, for every output type
\* and whatever the conversion makes of a float outside the range.
C28_UnsignedBeforeNodata ==
    alg = "summation" =>
        /\ \A p \in DOMAIN block_sum :
              /\ WLeq(WZero, block_sum[p]) /\ WLess(block_sum[p], TwoTo32)
              /\ (\A i \in 1..Len(all_rasters) : Convertible(Open(all_rasters[i]), p))
                    => \E k \in 0..Len(all_rasters) :
                          WAdd(block_sum[p], W(k * 65536, 0))
                              = ContributionSum(all_rasters, Len(all_rasters), p)
              /\ (Len(all_rasters) = 1 /\ Convertible(Open(all_rasters[1]), p)) =>
                    LET f == Open(all_rasters[1])
                    IN  /\ (f.nodata # None /\ f.nodata # NaN /\ WLess(f.nodata, WZero))
                              => block_sum[p] = Converted(f, p)
                        /\ (block_sum[p] = WZero /\ Converted(f, p) # WZero)
                              => Converted(f, p) = f.nodata
        /\ \A p \in DOMAIN out_px : WLeq(WZero, out_px[p])

\* The rasters neg.tif (Int32, nodata -1, pixels -1 and 40000) and half.tif
\* (Float32, pixels -0.5 and -2.5) were summed: where neg.tif is -1 and
\* half.tif is -0.5 the accumulator holds 4294967295 + 0.
C28_Witness ==
    /\ alg = "summation" /\ Len(all_rasters) = 2
    /\ \E i, j \in 1..2 :
          /\ Open(all_rasters[i]).nodata = WInt(0 - 1)
          /\ IsFloat32(Open(all_rasters[j]))
          /\ \E p \in DOMAIN block_sum :
                /\ ReadPixel(Open(all_rasters[i]), p) = WInt(0 - 1)
                /\ ReadPixel(Open(all_rasters[j]), p) = R(0 - 1, 65535, FBase \div 2, 0)
                /\ block_sum[p] = W(65535, 65535)

\* The masked files that some gdal:warpreproject call has written.
Written == {i \in 1..Len(masked_files) :
               \E j \in 1..Len(warped) : warped[j].input = masked_files[i].path}

\* C29 as claimed: in a preprocessing run the files masked before the
\* cancellation are never written to the output folder, and the number of
\* files written never exceeds the number masked.
C29_Original ==
    alg = "preprocess" =>
        /\ Len(warped) <= Len(masked_files)
        /\ canceled => \A i \in 1..cancelAt : i \notin Written

\* C29, amended: the flag is polled before each file of the masking loop and
\* before each file of the reprojection loop; once a poll has found it true
\* no further clip or reproject step starts.  A file whose poll found the
\* flag not set is still clipped or reprojected when the flag is set after
\* the poll (a clip under way ends; a reprojection under way ends, and one
\* whose poll has passed still starts and ends), so at most one more file is
\* masked and at most one more is written; the files written are masked
\* files, in the order of masking, and never more than were masked.  (The
\* merging loop polls nothing: a merge may still start after the flag is
\* set, and no file is masked or written by it.)
C29_PreprocessCancellation ==
    /\ [](alg = "preprocess" =>
            /\ Len(warped) <= Len(masked_files)
            /\ Written = 1..Len(warped)
            /\ canceled => Len(masked_files) \in {cancelAt, cancelAt + 1})
    /\ [][(alg = "preprocess" /\ canceled) =>
             /\ in_call' = "gdal:cliprasterbymasklayer" => in_call' = in_call
             /\ pc' = "crs" => pc' = pc
             /\ (in_call = "" /\ pc \notin {"crs", "warp"})
                   => (in_call' \notin {"gdal:cliprasterbymasklayer", "gdal:warpreproject"}
                       /\ masked_files' = masked_files /\ warped' = warped)]_vars

\* The flag was set after the poll before the second of two masked files
\* and before that file was handed to gdal:warpreproject: the first file is
\* written, and the second is about to be.
C29_Witness ==
    /\ alg = "preprocess" /\ pc = "warp" /\ canceled
    /\ cancelAt = 2 /\ Len(masked_files) = 2
    /\ Len(warped) = 1

\* C30: after any sequence of initGui, initProcessing and unload calls on
\* the plugin that ends with unload, the plugin holds no provider, the
\* registry contains no provider that the plugin added (every provider in
\* the registry here was added by it), and unload has not raised.
C30_ProviderLifecycle ==
    (alg = "plugin" /\ pc = "unload") =>
        /\ provider = 0
        /\ registry = {}
        /\ report # "error"

Init ==
    \/ InitSum \/ InitMonthly \/ InitSeasonal \/ InitBinary \/ InitKeys
    \/ InitPrep \/ InitExposure \/ InitSampling \/ InitIndex \/ InitRisk
    \/ InitPlugin

Next ==
    \/ SumStart \/ SumBlock \/ SumFinish
    \/ MonStart \/ MonUnit \/ MonBlock \/ MonFinish
    \/ SeaStart \/ SeaUnit \/ SeaBlock \/ SeaFinish
    \/ BinaryRead \/ BinaryCreate \/ BinaryWrite \/ BinaryClose
    \/ KeyStart \/ KeyFile \/ KeyFinish
    \/ PrepStart \/ PrepGroup \/ PrepMerge
    \/ PrepMaskPoll \/ PrepMask \/ PrepMaskEnd
    \/ PrepReprojectPoll \/ PrepReprojectCrs \/ PrepReprojectRun
    \/ PrepReproject \/ PrepFinish
    \/ ExpStart \/ ExpFile \/ ExpRun \/ ExpLoad \/ ExpFinish
    \/ SampStart \/ SampFile \/ SampRun \/ SampLoad \/ SampFinish
    \/ IdxStart \/ IdxStandardize \/ IdxSave \/ IdxSay \/ IdxRun
    \/ RiskFilter \/ RiskJoin \/ RiskCalc \/ RiskRun
    \/ initProcessing \/ initGui \/ unload
    \/ Cancel

Spec == Init /\ [][Next]_vars

====
